---- MODULE Spec2Model ----
(***************************************************************************)
(* PhotoPrism Helper: the popup's batch label engine.                      *)
(*                                                                         *)
(* The popup (popup.js) reads the selected photo UIDs and the session      *)
(* token from the page, then adds or removes one label on every selected   *)
(* photo with one HTTP call per UID, all in flight together.  The outcome  *)
(* is written to an execution history, a list of failed operations and the *)
(* recent-label lists, all kept in chrome.storage.local under keys made    *)
(* from the active tab's origin (storage-utils.js).                        *)
(*                                                                         *)
(* Strings whose characters matter (label names, origins, storage keys)    *)
(* are sequences of one-character strings.  Every await of the source is   *)
(* a point where an action of the model ends.                              *)
(***************************************************************************)
EXTENDS Integers, Sequences, FiniteSets, TLC

VARIABLES
    inv,        \* the locals of each invocation of handleAction, by slot
    storage,    \* chrome.storage.local: key -> value
    ui,         \* the popup's controls, status line and progress display
    net,        \* the HTTP requests issued so far, counted by method
    activeTab,  \* the origin of the active tab
    clicks,     \* the number of clicks handled so far
    now,        \* the clock: the millisecond Date.now() and new Date() read
    page,       \* the page of the active tab and its content script
    configPage  \* the configuration page: its status line, its clicks

vars == <<inv, storage, ui, net, activeTab, clicks, now, page, configPage>>

(***************************************************************************)
(* Bounds of the model.                                                    *)
(***************************************************************************)
MaxBatch == 2       \* the most photos selected in one invocation
MaxRuns == 2        \* the most invocations in a row (SpecResolve)
MaxOps == 2         \* the most invocations in a row (SpecTracker)
MaxOverlap == 2     \* the most invocations, overlapping or not (SpecOverlap)
MaxGestures == 3    \* the most clicks, openings of the popup included (SpecInstance)
MaxLabelRuns == 2   \* the most invocations in a row (SpecLabels)
MaxClock == 3       \* the last millisecond the clock reaches (SpecClock)
MaxStamps == 2      \* the most invocations, overlapping or not (SpecClock)
MaxRequests == 2    \* the most getPhotoPrismData requests sent (SpecContent)
MaxClears == 2      \* the most clicks on the configuration page (SpecConfig)
MaxNavigations == 2 \* the most changes of the active tab in a run (SpecNavigate)

Procs == {"p1", "p2"}
Ids == {"x1", "x2"}

(***************************************************************************)
(* Strings.                                                                *)
(***************************************************************************)
NameCat == <<"C", "a", "t">>
NameLowerCat == <<"c", "a", "t">>
NameDog == <<"d", "o", "g">>
NameDogSpace == <<"d", "o", "g", " ">>
NameBlank == <<" ">>
NameA == <<"a">>

Whitespace == {" "}

\* String.prototype.toLowerCase, on the letters the model uses.
LowerChar(c) ==
    CASE c = "C" -> "c"
      [] c = "D" -> "d"
      [] OTHER -> c

toLowerCase(s) == [i \in DOMAIN s |-> LowerChar(s[i])]

RECURSIVE trimStart(_)
trimStart(s) ==
    IF s # <<>> /\ Head(s) \in Whitespace THEN trimStart(Tail(s)) ELSE s

RECURSIVE trimEnd(_)
trimEnd(s) ==
    IF s # <<>> /\ s[Len(s)] \in Whitespace
    THEN trimEnd(SubSeq(s, 1, Len(s) - 1))
    ELSE s

\* The input as it is typed.
untrimmed(s) == s

\* String.prototype.trim
trim(s) == trimEnd(trimStart(s))

(***************************************************************************)
(* The instance-scoped store (storage-utils.js).                           *)
(***************************************************************************)
NoTab == <<>>
OriginA == <<"https", ":", "/", "/", "a", ".", "b">>
OriginDash == <<"https", ":", "/", "/", "a", "-", "b">>
OriginC == <<"https", ":", "/", "/", "c", ".", "b">>
AlNum == {"https", "a", "b", "c"}

Origins == {OriginA, OriginDash, OriginC}

\* The base keys popup.js stores under.
BaseKeys == {"labelCache", "recentLabels", "allLabels", "executionHistory",
             "failedOperations"}

getCurrentInstanceId == activeTab

sanitize(instanceId) ==
    [i \in DOMAIN instanceId |->
        IF instanceId[i] \in AlNum THEN instanceId[i] ELSE "_"]

createInstanceKey(baseKey, instanceId) ==
    <<baseKey, "_">> \o sanitize(instanceId)

\* result[key] || defaultValue, and defaultValue when no instance resolves.
\* Every stored value is an object or an array, which is truthy.
getInstanceData(baseKey, defaultValue) ==
    IF getCurrentInstanceId = NoTab
    THEN defaultValue
    ELSE LET key == createInstanceKey(baseKey, getCurrentInstanceId) IN
         IF key \in DOMAIN storage THEN storage[key] ELSE defaultValue

setInstanceData(st, baseKey, value) ==
    LET key == createInstanceKey(baseKey, getCurrentInstanceId) IN
    (key :> value) @@ st

EmptyObject == [n \in {} |-> 0]

\* The error getCurrentInstanceId rejects with when the active tab has no
\* URL; getInstanceData swallows it, setInstanceData throws it on.
ErrInstance == "Could not determine current instance"

\* setInstanceData throws, and has written nothing.
setInstanceDataThrows == getCurrentInstanceId = NoTab

(***************************************************************************)
(* The remote service's answers.                                           *)
(***************************************************************************)
\* fetch itself rejects (no connection): there is no status and no body.
FetchRejected == [status |-> 0, json |-> FALSE]

\* An answer to POST or DELETE: the status and whether the body parses as
\* JSON (response.json() resolves).
Responses ==
    { [status |-> 200, json |-> TRUE],
      [status |-> 204, json |-> FALSE],
      [status |-> 404, json |-> TRUE],
      [status |-> 404, json |-> FALSE],
      [status |-> 500, json |-> TRUE],
      FetchRejected }

NoResponse == [status |-> -1, json |-> FALSE]

\* Response.ok
ok(r) == r.status >= 200 /\ r.status <= 299

LabelIds == {0, 1}

RemoteLabels ==
    { [ID |-> id, Name |-> n, Slug |-> toLowerCase(n)] :
        id \in LabelIds, n \in {NameCat, NameDog} }

\* The Labels of a photo's detail: none, one, or two with different IDs.
LabelLists ==
    {<<>>} \cup { <<l>> : l \in RemoteLabels }
           \cup { <<l, m>> : l \in {x \in RemoteLabels : x.ID = 0},
                             m \in {x \in RemoteLabels : x.ID = 1} }

\* An answer to GET /api/v1/photos/{uid}.
DetailResponses ==
    { [ok |-> FALSE, Labels |-> <<>>] }
        \cup { [ok |-> TRUE, Labels |-> ls] : ls \in LabelLists }

\* What the content script answers to getPhotoPrismData.
Selections == UNION { [1..n -> Ids] : n \in 0..MaxBatch }

DataReplies ==
    { [success |-> FALSE, uids |-> <<>>] }
        \cup { [success |-> TRUE, uids |-> s] : s \in Selections }

(***************************************************************************)
(* The popup's display.                                                    *)
(***************************************************************************)
setUIProcessingState(u, isProcessing) ==
    [u EXCEPT !.disabled = isProcessing, !.progressShown = isProcessing]

updateProgress(u, processed, total) ==
    [u EXCEPT !.progressText = <<processed, total>>]

setStatus(u, message, isError) ==
    [u EXCEPT !.status = message, !.statusIsError = isError]

(***************************************************************************)
(* One invocation's locals.                                                *)
(***************************************************************************)
Null == "null"

NoCall == [phase |-> "new", sent |-> 0, resp |-> NoResponse, outcome |-> "none"]

\* startTime is the instant new Date() reads, in milliseconds; toISOString
\* writes it out as a string that orders as the instants do.
NoResult == [action |-> "none", labelName |-> <<>>, totalCount |-> 0,
             successCount |-> 0, failedCount |-> 0, failedUids |-> <<>>,
             startTime |-> 0, duration |-> 0, error |-> Null]

\* A failed operation as handleAction and retryFailedOperation store it.
NoOperation == [action |-> "none", labelName |-> <<>>, failedUids |-> <<>>,
                timestamp |-> 0, retryCount |-> 0]

Blank ==
    [ pc |-> "idle",
      kind |-> "none",          \* "run": handleAction, "retry": retryFailedOperation
      action |-> "none",
      labelName |-> <<>>,
      uids |-> <<>>,
      executionResult |-> NoResult,
      labelId |-> -1,
      labelCache |-> EmptyObject,
      detailUid |-> "",
      \* retryFailedOperation
      index |-> -1,
      failedOperations |-> <<>>,
      \* the stores' functions: what they hold across their awaits
      resultWithId |-> NoResult,
      failedOperation |-> NoOperation,
      read |-> <<>>,
      readAll |-> <<>>,
      \* batchProcess
      batchUids |-> <<>>,
      calls |-> <<>>,
      processedCount |-> 0,
      successCount |-> 0,
      failedCount |-> 0,
      failedUids |-> <<>>,
      total |-> 0,
      reports |-> <<>>,
      returned |-> FALSE,
      result |-> [successCount |-> 0, failedCount |-> 0, failedUids |-> <<>>] ]

\* What the content script answers with (sendResponse); none so far.
NoAnswer == [success |-> FALSE, uids |-> <<>>, token |-> Null, error |-> ""]

\* The configuration page (config.js) as it opens: no status shown.
NoConfig == [status |-> "", isError |-> FALSE, clicks |-> 0]

\* localStorage holds no item 'clipboard.photos'.
NoClipboard == [kind |-> "absent", uids |-> <<>>]

\* A tab whose page has not run the content script (content.js): nothing
\* listens, localStorage holds neither a session token nor a clipboard.
NoPage ==
    [ loaded |-> FALSE,         \* isPluginEnabled().then(...) has run
      listening |-> FALSE,      \* setupMessageListener has run
      token |-> Null,           \* localStorage 'session.token'
      clipboard |-> NoClipboard,\* localStorage 'clipboard.photos'
      request |-> "none",       \* where handleGetPhotoPrismData stands
      requests |-> 0,           \* how many requests were sent to the tab
      answers |-> 0,            \* how often sendResponse was called
      answer |-> NoAnswer ]

Init ==
    /\ inv = [p \in Procs |-> Blank]
    /\ storage = << >>
    /\ ui = [disabled |-> FALSE, progressShown |-> FALSE,
             progressText |-> <<0, 0>>, status |-> "", statusIsError |-> FALSE,
             retryButtons |-> 0]
    /\ net = [GET |-> 0, POST |-> 0, DELETE |-> 0]
    /\ activeTab = OriginA
    /\ clicks = 0
    /\ now = 0
    /\ page = NoPage
    /\ configPage = NoConfig

(***************************************************************************)
(* handleAction, up to the start of the batch.                             *)
(***************************************************************************)
\* batchProcess up to its first await: the counters, the first progress
\* report, and one call of apiFn per element of uids.
batchProcessStart(l, uids) ==
    [l EXCEPT !.pc = "batch",
              !.batchUids = uids,
              !.calls = [i \in DOMAIN uids |-> NoCall],
              !.processedCount = 0,
              !.successCount = 0,
              !.failedCount = 0,
              !.failedUids = <<>>,
              !.total = Len(uids),
              !.reports = <<<<0, Len(uids)>>>>]

\* saveExecutionResult up to its first await: the result with its id, the
\* decimal digits of Date.now().
resultWithId(executionResult) == ("id" :> now) @@ executionResult

\* A catch block that shows the error and saves no result.
handleActionCatchShowsOnly(l, message) ==
    [l EXCEPT !.pc = "idle", !.executionResult.error = message]

\* The catch block of handleAction, up to the first await of
\* saveExecutionResult.
handleActionCatch(l, message) ==
    LET executionResult == [l.executionResult EXCEPT
                                !.error = message,
                                !.duration = now - l.executionResult.startTime]
    IN [l EXCEPT !.pc = "saveError",
                 !.executionResult = executionResult,
                 !.resultWithId = resultWithId(executionResult)]

\* The finally block of retryFailedOperation, up to the first await of
\* saveExecutionResult.
retryFinally(l) ==
    LET retryResult == [l.executionResult EXCEPT
                            !.duration = now - l.executionResult.startTime]
    IN [l EXCEPT !.pc = "retrySave",
                 !.executionResult = retryResult,
                 !.resultWithId = resultWithId(retryResult)]

\* A catch block that returns without the finally block.
retryFailedOperationCatchReturns(l, message) ==
    [l EXCEPT !.pc = "idle", !.executionResult.error = message]

\* The catch block of retryFailedOperation, and on into its finally block.
retryFailedOperationCatch(l, message) ==
    retryFinally([l EXCEPT !.executionResult.error = message])

\* setStatus(error.message, true) in the catch block of
\* retryFailedOperation; handleAction sets the status after its save.
catchStatus(u, l, message) ==
    IF l.kind = "retry" THEN setStatus(u, message, TRUE) ELSE u

\* Where an error thrown inside the try block of invocation l lands.
catchBlock(l, message) ==
    IF l.kind = "retry"
    THEN retryFailedOperationCatch(l, message)
    ELSE handleActionCatch(l, message)

ErrDataSource == "Could not communicate with PhotoPrism page."
ErrNoPhotos == "No photos selected."

\* A click on Add or Remove with the label input holding `input`.
HandleAction(p, action, input) ==
    /\ inv[p].pc = "idle"
    /\ ~ui.disabled
    /\ LET labelName == trim(input) IN
       IF labelName = <<>>
       THEN /\ ui' = setStatus(ui, "Please enter a label name.", TRUE)
            /\ UNCHANGED inv
       ELSE /\ ui' = updateProgress(
                        setStatus(setUIProcessingState(ui, TRUE),
                                  "Requesting data from PhotoPrism...", FALSE),
                        0, 0)
            /\ inv' = [inv EXCEPT ![p] =
                        [Blank EXCEPT
                            !.pc = "getData",
                            !.kind = "run",
                            !.action = action,
                            !.labelName = labelName,
                            !.executionResult =
                                [NoResult EXCEPT !.action = action,
                                                 !.labelName = labelName,
                                                 !.startTime = now]]]
    /\ clicks' = clicks + 1
    /\ UNCHANGED <<storage, net, activeTab, now, page, configPage>>

\* A handleAction that goes on with whatever selection it is given, an
\* empty one too.
DataReplyUnchecked(p, reply) ==
    /\ inv[p].pc = "getData"
    /\ inv[p].kind = "run"
    /\ LET l == inv[p] IN
       IF ~reply.success
       THEN /\ inv' = [inv EXCEPT ![p] = catchBlock(l, ErrDataSource)]
            /\ UNCHANGED ui
       ELSE LET l1 == [l EXCEPT !.uids = reply.uids,
                                !.executionResult.totalCount = Len(reply.uids)]
                u1 == setStatus(ui, "Processing photos...", FALSE)
            IN IF l.action = "add" \/ reply.uids = <<>>
               THEN /\ inv' = [inv EXCEPT ![p] = batchProcessStart(l1, reply.uids)]
                    /\ ui' = updateProgress(u1, 0, Len(reply.uids))
               ELSE /\ inv' = [inv EXCEPT ![p] = [l1 EXCEPT !.pc = "getLabelId"]]
                    /\ ui' = u1
    /\ UNCHANGED <<storage, net, activeTab, clicks, now, page, configPage>>

\* getPhotoPrismData settles with `reply`; handleAction runs on to its next
\* await.
DataReply(p, reply) ==
    /\ inv[p].pc = "getData"
    /\ inv[p].kind = "run"
    /\ LET l == inv[p] IN
       IF ~reply.success
       THEN /\ inv' = [inv EXCEPT ![p] = catchBlock(l, ErrDataSource)]
            /\ UNCHANGED ui
       ELSE IF Len(reply.uids) = 0
       THEN /\ inv' = [inv EXCEPT ![p] = catchBlock(l, ErrNoPhotos)]
            /\ UNCHANGED ui
       ELSE LET l1 == [l EXCEPT !.uids = reply.uids,
                                !.executionResult.totalCount = Len(reply.uids)]
                u1 == setStatus(ui, "Processing photos...", FALSE)
            IN IF l.action = "add"
               THEN /\ inv' = [inv EXCEPT ![p] = batchProcessStart(l1, reply.uids)]
                    /\ ui' = updateProgress(u1, 0, Len(reply.uids))
               ELSE /\ inv' = [inv EXCEPT ![p] = [l1 EXCEPT !.pc = "getLabelId"]]
                    /\ ui' = u1
    /\ UNCHANGED <<storage, net, activeTab, clicks, now, page, configPage>>

(***************************************************************************)
(* getLabelId: the label's ID, from the instance's cache or from the       *)
(* detail of the first photo.                                              *)
(***************************************************************************)
ErrFetchDetail == "Failed to get label ID: Failed to fetch photo details for label ID."
ErrNotFound == "Failed to get label ID: Label not found on the photo, cannot determine its ID."
ErrCacheWrite == "Failed to get label ID: Could not determine current instance"

\* new URL(tabs[0].url) on a tab that has no URL, thrown before the try
\* block of getLabelId.
ErrInvalidUrl == "Invalid URL"

\* A cache that keys its entries by the lower-cased name.
cacheKeyLowerCase(labelName) == toLowerCase(labelName)

\* The property of the labelCache object that holds a label: its name as
\* it was typed.
cacheKey(labelName) == labelName

\* if (labelCache[labelName]): the name is a key and its value is truthy.
cacheHit(labelCache, labelName) ==
    /\ cacheKey(labelName) \in DOMAIN labelCache
    /\ labelCache[cacheKey(labelName)] # 0

\* if (!response.ok) throw ..., rethrown by the catch of getLabelId.
detailFailed(l) == catchBlock(l, ErrFetchDetail)

\* A getLabelId that returns undefined for a label the photo does not
\* carry, so that the batch goes on.
labelNotFoundGoesOn(l) == batchProcessStart(l, l.uids)

\* if (!label) throw ..., rethrown by the catch of getLabelId.
labelNotFound(l) == catchBlock(l, ErrNotFound)

labelMatches(l, labelName) ==
    \/ toLowerCase(l.Name) = toLowerCase(labelName)
    \/ toLowerCase(l.Slug) = toLowerCase(labelName)

\* photoDetails.Labels?.find(...): the index of the first match, 0 for none.
findLabel(Labels, labelName) ==
    LET hits == {i \in DOMAIN Labels : labelMatches(Labels[i], labelName)} IN
    IF hits = {} THEN 0 ELSE CHOOSE i \in hits : \A j \in hits : i <= j

\* getLabelId up to its first network call: the cache is read, and a hit
\* returns (the batch starts); a miss sends GET /api/v1/photos/{firstUid}.
GetLabelId(p) ==
    /\ inv[p].pc = "getLabelId"
    /\ LET l == inv[p]
           labelCache == getInstanceData("labelCache", EmptyObject)
       IN IF cacheHit(labelCache, l.labelName)
          THEN /\ inv' = [inv EXCEPT ![p] =
                            batchProcessStart(
                                [l EXCEPT !.labelCache = labelCache,
                                          !.labelId = labelCache[cacheKey(l.labelName)]],
                                l.uids)]
               /\ ui' = updateProgress(ui, 0, Len(l.uids))
               /\ UNCHANGED net
          ELSE IF activeTab = NoTab
          THEN /\ inv' = [inv EXCEPT ![p] = catchBlock(l, ErrInvalidUrl)]
               /\ ui' = catchStatus(
                            setStatus(ui, "Cache miss, fetching label ID from API...", FALSE),
                            l, ErrInvalidUrl)
               /\ UNCHANGED net
          ELSE /\ inv' = [inv EXCEPT ![p] =
                            [l EXCEPT !.pc = "fetchDetail",
                                      !.labelCache = labelCache,
                                      !.detailUid = l.uids[1]]]
               /\ ui' = setStatus(ui, "Cache miss, fetching label ID from API...", FALSE)
               /\ net' = [net EXCEPT !.GET = @ + 1]
    /\ UNCHANGED <<storage, activeTab, clicks, now, page, configPage>>

\* The detail request settles with `r`; getLabelId caches and returns the
\* ID, or throws into handleAction's catch.
DetailReply(p, r) ==
    /\ inv[p].pc = "fetchDetail"
    /\ LET l == inv[p]
           at == findLabel(r.Labels, l.labelName)
       IN IF ~r.ok
          THEN /\ inv' = [inv EXCEPT ![p] = detailFailed(l)]
               /\ ui' = catchStatus(ui, l, ErrFetchDetail)
               /\ UNCHANGED storage
          ELSE IF at = 0
          THEN /\ inv' = [inv EXCEPT ![p] = labelNotFound(l)]
               /\ ui' = catchStatus(ui, l, ErrNotFound)
               /\ UNCHANGED storage
          ELSE IF setInstanceDataThrows
          THEN /\ inv' = [inv EXCEPT ![p] = catchBlock(l, ErrCacheWrite)]
               /\ ui' = catchStatus(ui, l, ErrCacheWrite)
               /\ UNCHANGED storage
          ELSE LET labelId == r.Labels[at].ID
                   labelCache == (cacheKey(l.labelName) :> labelId) @@ l.labelCache
               IN /\ storage' = setInstanceData(storage, "labelCache", labelCache)
                  /\ inv' = [inv EXCEPT ![p] =
                                batchProcessStart(
                                    [l EXCEPT !.labelCache = labelCache,
                                              !.labelId = labelId],
                                    l.uids)]
                  /\ ui' = updateProgress(ui, 0, Len(l.uids))
    /\ UNCHANGED <<net, activeTab, clicks, now, page, configPage>>

(***************************************************************************)
(* batchProcess and the two API functions.                                 *)
(***************************************************************************)
\* addLabel: how its promise settles when the POST is answered with r.
addLabel(r) ==
    IF r = FetchRejected THEN "rejected"
    ELSE IF ~ok(r) THEN "rejected"
    ELSE IF r.json THEN "fulfilled" ELSE "rejected"

\* removeLabel: how its promise settles when the DELETE is answered with r.
removeLabel(r) ==
    IF r = FetchRejected THEN "rejected"
    ELSE IF ~ok(r) /\ r.status # 404 THEN "rejected"
    ELSE IF r.json THEN "fulfilled" ELSE "rejected"

apiFn(action, r) == IF action = "add" THEN addLabel(r) ELSE removeLabel(r)

method(action) == IF action = "add" THEN "POST" ELSE "DELETE"

\* A then callback that derives the successes from the processed count.
thenCallbackFromProcessed(l, i) ==
    [l EXCEPT !.successCount = (l.processedCount + 1) - l.failedCount]

\* .then(res => { successCount++ ... })
thenCallback(l, i) ==
    [l EXCEPT !.successCount = @ + 1]

\* A catch callback that counts the failure and forgets the UID.
catchCallbackNoPush(l, i) ==
    [l EXCEPT !.failedCount = @ + 1]

\* A catch callback that lists a failed UID once.
catchCallbackDedup(l, i) ==
    [l EXCEPT !.failedCount = @ + 1,
              !.failedUids = IF \E k \in DOMAIN @ : @[k] = l.batchUids[i]
                             THEN @ ELSE Append(@, l.batchUids[i])]

\* A catch callback that sends a failed call once more.
catchCallbackRetry(l, i) ==
    IF l.calls[i].sent < 2
    THEN [l EXCEPT !.calls[i].phase = "new", !.calls[i].outcome = "none"]
    ELSE [l EXCEPT !.failedCount = @ + 1,
                   !.failedUids = Append(@, l.batchUids[i])]

\* .catch(err => { failedCount++; failedUids.push(uid) ... })
catchCallback(l, i) ==
    [l EXCEPT !.failedCount = @ + 1,
              !.failedUids = Append(@, l.batchUids[i])]

\* Progress that is counted for the calls that succeeded only.
finallyCallbackOnSuccess(l, i) ==
    IF l.calls[i].outcome = "fulfilled"
    THEN [l EXCEPT !.processedCount = @ + 1,
                   !.reports = Append(@, <<l.processedCount + 1, l.total>>)]
    ELSE l

\* .finally(() => { processedCount++; updateProgress(processedCount, total) })
finallyCallback(l, i) ==
    [l EXCEPT !.processedCount = @ + 1,
              !.reports = Append(@, <<l.processedCount + 1, l.total>>)]

\* A Promise.all over promises that reject: the first failure ends the wait.
pendingFailFast(l) ==
    IF \E i \in DOMAIN l.calls : l.calls[i].outcome = "rejected"
    THEN {}
    ELSE {i \in DOMAIN l.calls : l.calls[i].phase # "done"}

\* A wait that ends only when every call has fulfilled.
pendingUntilFulfilled(l) ==
    {i \in DOMAIN l.calls : l.calls[i].phase # "done"
                              \/ l.calls[i].outcome = "rejected"}

\* Which calls Promise.all still waits for.
pending(l) == {i \in DOMAIN l.calls : l.calls[i].phase # "done"}

\* apiFn(uid) asks for the active tab and reaches its fetch: the request of
\* call i goes out, to the origin of the tab that is active now.  On a tab
\* without URL new URL(tabs[0].url) throws: the call is rejected with no
\* request sent, and the catch callback runs.
IssueCall(p, i) ==
    /\ inv[p].pc = "batch"
    /\ i \in DOMAIN inv[p].calls
    /\ inv[p].calls[i].phase = "new"
    /\ IF activeTab = NoTab
       THEN /\ inv' = [inv EXCEPT ![p] =
                        catchCallback(
                            [inv[p] EXCEPT !.calls[i].phase = "counted",
                                           !.calls[i].outcome = "rejected"], i)]
            /\ UNCHANGED <<net, ui>>
       ELSE /\ inv' = [inv EXCEPT ![p].calls[i].phase = "sent",
                                  ![p].calls[i].sent = @ + 1]
            /\ net' = [net EXCEPT ![method(inv[p].action)] = @ + 1]
            /\ ui' = setStatus(ui, "Calling API", FALSE)
    /\ UNCHANGED <<storage, activeTab, clicks, now, page, configPage>>

\* The request of call i is answered with r: apiFn's promise settles and
\* the then or the catch callback runs.
CallSettles(p, i, r) ==
    /\ inv[p].pc = "batch"
    /\ i \in DOMAIN inv[p].calls
    /\ inv[p].calls[i].phase = "sent"
    /\ LET l == inv[p]
           outcome == apiFn(l.action, r)
           l1 == [l EXCEPT !.calls[i].phase = "counted",
                           !.calls[i].resp = r,
                           !.calls[i].outcome = outcome]
       IN inv' = [inv EXCEPT ![p] =
                    IF outcome = "fulfilled"
                    THEN thenCallback(l1, i)
                    ELSE catchCallback(l1, i)]
    /\ UNCHANGED <<storage, ui, net, activeTab, clicks, now, page, configPage>>

\* The finally callback of call i.
CallFinally(p, i) ==
    /\ inv[p].pc = "batch"
    /\ i \in DOMAIN inv[p].calls
    /\ inv[p].calls[i].phase = "counted"
    /\ LET l1 == finallyCallback(inv[p], i) IN
        /\ inv' = [inv EXCEPT ![p] = [l1 EXCEPT !.calls[i].phase = "done"]]
        /\ ui' = updateProgress(ui, l1.processedCount, l1.total)
    /\ UNCHANGED <<storage, net, activeTab, clicks, now, page, configPage>>

\* What batchProcess returns.
batchResult(l) ==
    [successCount |-> l.successCount,
     failedCount |-> l.failedCount,
     failedUids |-> l.failedUids]

\* Promise.all resolves, batchProcess returns and its caller copies the
\* result: handleAction goes on to the first await of saveExecutionResult,
\* retryFailedOperation to its await of setInstanceData.
BatchReturn(p) ==
    /\ inv[p].pc = "batch"
    /\ pending(inv[p]) = {}
    /\ LET l == inv[p]
           result == batchResult(l)
           executionResult ==
                [l.executionResult EXCEPT
                    !.successCount = result.successCount,
                    !.failedCount = result.failedCount,
                    !.failedUids = result.failedUids,
                    !.duration = IF l.kind = "retry" THEN @
                                 ELSE now - l.executionResult.startTime]
       IN inv' = [inv EXCEPT ![p] =
                    [l EXCEPT !.pc = IF l.kind = "retry" THEN "retryUpdate"
                                     ELSE "saveResult",
                              !.returned = TRUE,
                              !.result = result,
                              !.executionResult = executionResult,
                              !.resultWithId =
                                    IF l.kind = "retry" THEN @
                                    ELSE resultWithId(executionResult)]]
    /\ UNCHANGED <<storage, ui, net, activeTab, clicks, now, page, configPage>>

(***************************************************************************)
(* The execution history, the failed operations and the recent labels.     *)
(***************************************************************************)
HistoryCap == 50
FailedCap == 20
RecentCap == 20

\* Array.prototype.slice(0, n)
slice(a, n) == SubSeq(a, 1, IF Len(a) < n THEN Len(a) ELSE n)

\* Array.prototype.unshift
unshift(a, x) == <<x>> \o a

RECURSIVE filterSeq(_, _)
\* Array.prototype.filter, keeping the elements at the indices in `keep`.
filterSeq(a, keep) ==
    IF a = <<>> THEN <<>>
    ELSE LET rest == filterSeq(SubSeq(a, 1, Len(a) - 1), keep) IN
         IF Len(a) \in keep THEN Append(rest, a[Len(a)]) ELSE rest

\* A saveExecutionResult that pushes the result to the end of the history.
saveExecutionResultPush(executionHistory, resultWithId_) ==
    slice(Append(executionHistory, resultWithId_), HistoryCap)

\* saveExecutionResult: the history with the result at its head.
saveExecutionResult(executionHistory, resultWithId_) ==
    slice(unshift(executionHistory, resultWithId_), HistoryCap)

sameOperation(op, action, labelName) ==
    /\ toLowerCase(op.labelName) = toLowerCase(labelName)
    /\ op.action = action

\* failedOperations.findIndex(...): 0 for none.
findIndex(failedOperations, action, labelName) ==
    LET hits == {i \in DOMAIN failedOperations :
                    sameOperation(failedOperations[i], action, labelName)} IN
    IF hits = {} THEN 0 ELSE CHOOSE i \in hits : \A j \in hits : i <= j

\* A saveFailedOperation that keeps the retryCount of the operation it
\* replaces.
saveFailedOperationKeepsCount(failedOperations, failedOperation) ==
    LET existingIndex == findIndex(failedOperations, failedOperation.action,
                                   failedOperation.labelName) IN
    slice(IF existingIndex > 0
          THEN [failedOperations EXCEPT
                    ![existingIndex] =
                        [failedOperation EXCEPT !.retryCount =
                            failedOperations[existingIndex].retryCount]]
          ELSE unshift(failedOperations, failedOperation),
          FailedCap)

\* A saveFailedOperation that adds the operation without looking for one
\* of its label and action.
saveFailedOperationAlwaysAdds(failedOperations, failedOperation) ==
    slice(unshift(failedOperations, failedOperation), FailedCap)

\* saveFailedOperation: the list after the operation is added or replaced.
saveFailedOperation(failedOperations, failedOperation) ==
    LET existingIndex == findIndex(failedOperations, failedOperation.action,
                                   failedOperation.labelName) IN
    slice(IF existingIndex > 0
          THEN [failedOperations EXCEPT ![existingIndex] = failedOperation]
          ELSE unshift(failedOperations, failedOperation),
          FailedCap)

\* A removeFailedOperation that compares the labels as they are spelled.
removeFailedOperationExact(failedOperations, action, labelName) ==
    filterSeq(failedOperations,
              {i \in DOMAIN failedOperations :
                  ~ /\ failedOperations[i].labelName = labelName
                    /\ failedOperations[i].action = action})

\* removeFailedOperation: the list without the operations of this key.
removeFailedOperation(failedOperations, action, labelName) ==
    filterSeq(failedOperations,
              {i \in DOMAIN failedOperations :
                  ~sameOperation(failedOperations[i], action, labelName)})

\* UTF-16 code units of the characters the model uses.
charCode(c) ==
    CASE c = " " -> 32
      [] c = "0" -> 48
      [] c = "1" -> 49
      [] c = "2" -> 50
      [] c = "3" -> 51
      [] c = "4" -> 52
      [] c = "5" -> 53
      [] c = "6" -> 54
      [] c = "7" -> 55
      [] c = "8" -> 56
      [] c = "9" -> 57
      [] c = "C" -> 67
      [] c = "D" -> 68
      [] c = "a" -> 97
      [] c = "c" -> 99
      [] c = "d" -> 100
      [] c = "f" -> 102
      [] c = "g" -> 103
      [] c = "o" -> 111
      [] c = "t" -> 116

RECURSIVE strLess(_, _)
\* a < b as JavaScript compares strings.
strLess(a, b) ==
    IF b = <<>> THEN FALSE
    ELSE IF a = <<>> THEN TRUE
    ELSE IF charCode(Head(a)) # charCode(Head(b))
    THEN charCode(Head(a)) < charCode(Head(b))
    ELSE strLess(Tail(a), Tail(b))

RECURSIVE insertSorted(_, _)
insertSorted(a, x) ==
    IF a = <<>> THEN <<x>>
    ELSE IF strLess(x, Head(a)) THEN <<x>> \o a
    ELSE <<Head(a)>> \o insertSorted(Tail(a), x)

RECURSIVE sort(_)
\* Array.prototype.sort() without a comparator (stable).
sort(a) == IF a = <<>> THEN <<>> ELSE insertSorted(sort(SubSeq(a, 1, Len(a) - 1)), a[Len(a)])

\* An addToRecentLabels that leaves the label where it was in the list.
recentWithUnfiltered(recentLabels, labelName) ==
    LET normalizedLabel == toLowerCase(trim(labelName)) IN
    slice(unshift(recentLabels, normalizedLabel), RecentCap)

\* addToRecentLabels: the new recentLabels list.
recentWith(recentLabels, labelName) ==
    LET normalizedLabel == toLowerCase(trim(labelName)) IN
    slice(unshift(filterSeq(recentLabels,
                            {i \in DOMAIN recentLabels :
                                toLowerCase(recentLabels[i]) # normalizedLabel}),
                  normalizedLabel),
          RecentCap)

\* addToRecentLabels: the new allLabels list.
allWith(allLabels, labelName) ==
    LET normalizedLabel == toLowerCase(trim(labelName)) IN
    IF \E i \in DOMAIN allLabels : toLowerCase(allLabels[i]) = normalizedLabel
    THEN allLabels
    ELSE sort(Append(allLabels, normalizedLabel))

\* refreshFailedOperations: one Retry button for each operation stored.
displayFailedOperations(u, failedOperations) ==
    [u EXCEPT !.retryButtons = Len(failedOperations)]

\* saveExecutionResult on the success path: the history is read.
SaveResult(p) ==
    /\ inv[p].pc = "saveResult"
    /\ inv' = [inv EXCEPT ![p].pc = "saveResultWrite",
                          ![p].read = getInstanceData("executionHistory", <<>>)]
    /\ UNCHANGED <<storage, ui, net, activeTab, clicks, now, page, configPage>>

\* saveExecutionResult on the success path: the history is written, and
\* handleAction makes the failed operation it is about to save.
SaveResultWrite(p) ==
    /\ inv[p].pc = "saveResultWrite"
    /\ LET l == inv[p] IN
       IF setInstanceDataThrows
       THEN /\ inv' = [inv EXCEPT ![p] = handleActionCatch(l, ErrInstance)]
            /\ UNCHANGED storage
       ELSE /\ storage' = setInstanceData(storage, "executionHistory",
                            saveExecutionResult(l.read, l.resultWithId))
            /\ inv' = [inv EXCEPT ![p].pc = "saveFailed",
                                  ![p].failedOperation =
                                        [action |-> l.action,
                                         labelName |-> l.labelName,
                                         failedUids |-> l.executionResult.failedUids,
                                         timestamp |-> now,
                                         retryCount |-> 0]]
    /\ UNCHANGED <<ui, net, activeTab, clicks, now, page, configPage>>

\* saveFailedOperation or removeFailedOperation: the list is read.
SaveFailed(p) ==
    /\ inv[p].pc = "saveFailed"
    /\ inv' = [inv EXCEPT ![p].pc = "saveFailedWrite",
                          ![p].read = getInstanceData("failedOperations", <<>>)]
    /\ UNCHANGED <<storage, ui, net, activeTab, clicks, now, page, configPage>>

\* saveFailedOperation when a call failed, removeFailedOperation otherwise:
\* the list is written and shown.
SaveFailedWrite(p) ==
    /\ inv[p].pc = "saveFailedWrite"
    /\ LET l == inv[p]
           failedOperations ==
                IF Len(l.executionResult.failedUids) > 0
                THEN saveFailedOperation(l.read, l.failedOperation)
                ELSE removeFailedOperation(l.read, l.action,
                                           toLowerCase(l.labelName))
       IN IF setInstanceDataThrows
          THEN /\ inv' = [inv EXCEPT ![p] = handleActionCatch(l, ErrInstance)]
               /\ UNCHANGED <<storage, ui>>
          ELSE /\ storage' = setInstanceData(storage, "failedOperations",
                                             failedOperations)
               /\ ui' = displayFailedOperations(ui, failedOperations)
               /\ inv' = [inv EXCEPT ![p].pc = "addRecent"]
    /\ UNCHANGED <<net, activeTab, clicks, now, page, configPage>>

\* addToRecentLabels: recentLabels is read.
AddRecent(p) ==
    /\ inv[p].pc = "addRecent"
    /\ inv' = [inv EXCEPT ![p].pc = "addRecentAll",
                          ![p].read = getInstanceData("recentLabels", <<>>)]
    /\ UNCHANGED <<storage, ui, net, activeTab, clicks, now, page, configPage>>

\* addToRecentLabels: allLabels is read.
AddRecentAll(p) ==
    /\ inv[p].pc = "addRecentAll"
    /\ inv' = [inv EXCEPT ![p].pc = "addRecentWrite",
                          ![p].readAll = getInstanceData("allLabels", <<>>)]
    /\ UNCHANGED <<storage, ui, net, activeTab, clicks, now, page, configPage>>

\* addToRecentLabels: recentLabels is written.
AddRecentWrite(p) ==
    /\ inv[p].pc = "addRecentWrite"
    /\ IF setInstanceDataThrows
       THEN /\ inv' = [inv EXCEPT ![p] = handleActionCatch(inv[p], ErrInstance)]
            /\ UNCHANGED storage
       ELSE /\ storage' = setInstanceData(storage, "recentLabels",
                                recentWith(inv[p].read, inv[p].labelName))
            /\ inv' = [inv EXCEPT ![p].pc = "addRecentAllWrite"]
    /\ UNCHANGED <<ui, net, activeTab, clicks, now, page, configPage>>

\* addToRecentLabels: allLabels is written; then the final status and the
\* finally block of handleAction.
AddRecentAllWrite(p) ==
    /\ inv[p].pc = "addRecentAllWrite"
    /\ IF setInstanceDataThrows
       THEN /\ inv' = [inv EXCEPT ![p] = handleActionCatch(inv[p], ErrInstance)]
            /\ UNCHANGED <<storage, ui>>
       ELSE /\ storage' = setInstanceData(storage, "allLabels",
                                allWith(inv[p].readAll, inv[p].labelName))
            /\ ui' = setUIProcessingState(
                        setStatus(ui, "Operation complete.",
                                  inv[p].executionResult.failedCount > 0),
                        FALSE)
            /\ inv' = [inv EXCEPT ![p].pc = "idle"]
    /\ UNCHANGED <<net, activeTab, clicks, now, page, configPage>>

\* The catch block of handleAction: saveExecutionResult reads the history.
SaveError(p) ==
    /\ inv[p].pc = "saveError"
    /\ inv' = [inv EXCEPT ![p].pc = "saveErrorWrite",
                          ![p].read = getInstanceData("executionHistory", <<>>)]
    /\ UNCHANGED <<storage, ui, net, activeTab, clicks, now, page, configPage>>

\* The catch block of handleAction: the error result is written, the
\* failed operations are shown again, then the finally block.  When the
\* write throws, the error leaves the catch block through the finally
\* block and handleAction rejects.
SaveErrorWrite(p) ==
    /\ inv[p].pc = "saveErrorWrite"
    /\ IF setInstanceDataThrows
       THEN /\ ui' = setUIProcessingState(ui, FALSE)
            /\ UNCHANGED storage
       ELSE /\ storage' = setInstanceData(storage, "executionHistory",
                            saveExecutionResult(inv[p].read, inv[p].resultWithId))
            /\ ui' = setUIProcessingState(
                        displayFailedOperations(
                            setStatus(ui, inv[p].executionResult.error, TRUE),
                            getInstanceData("failedOperations", <<>>)),
                        FALSE)
    /\ inv' = [inv EXCEPT ![p].pc = "idle"]
    /\ UNCHANGED <<net, activeTab, clicks, now, page, configPage>>

(***************************************************************************)
(* retryFailedOperation: a click on the Retry button of a failed operation.*)
(***************************************************************************)
ErrNotDefined == "forceRefreshAllDisplays is not defined"

\* Array.prototype.splice(i, 1), with i counted from 1.
splice(a, i) == SubSeq(a, 1, i - 1) \o SubSeq(a, i + 1, Len(a))

\* An update that adds the UIDs that failed now to those that failed before.
stillFailingConcat(operation, failedUids) ==
    [operation EXCEPT !.failedUids = @ \o failedUids,
                      !.retryCount = @ + 1,
                      !.timestamp = now]

\* An update that leaves the count of retries as it was.
stillFailingSameCount(operation, failedUids) ==
    [operation EXCEPT !.failedUids = failedUids,
                      !.timestamp = now]

\* The retried operation after a retry that left failures.
stillFailing(operation, failedUids) ==
    [operation EXCEPT !.failedUids = failedUids,
                      !.retryCount = @ + 1,
                      !.timestamp = now]

\* A retry that reads the list again after its batch and changes the
\* operation at index in the list stored by then.
retryUpdateRereads(failedOperations, index, failedUids) ==
    LET stored == getInstanceData("failedOperations", <<>>) IN
    IF index >= Len(stored) THEN stored
    ELSE IF Len(failedUids) = 0
    THEN splice(stored, index + 1)
    ELSE [stored EXCEPT ![index + 1] = stillFailing(@, failedUids)]

\* A retry that on success removes the head of the list.
retryUpdateRemovesHead(failedOperations, index, failedUids) ==
    IF Len(failedUids) = 0
    THEN splice(failedOperations, 1)
    ELSE [failedOperations EXCEPT
            ![index + 1] = stillFailing(@, failedUids)]

\* A retry that updates the operation whatever its batch left, and never
\* removes it.
retryUpdateKeepsGroup(failedOperations, index, failedUids) ==
    [failedOperations EXCEPT ![index + 1] = stillFailing(@, failedUids)]

\* What retryFailedOperation writes after its batch: the list it read at
\* its start, without the operation at index or with that operation updated.
retryUpdate(failedOperations, index, failedUids) ==
    IF Len(failedUids) = 0
    THEN splice(failedOperations, index + 1)
    ELSE [failedOperations EXCEPT
            ![index + 1] = stillFailing(@, failedUids)]

\* A click on the Retry button that carries data-index `index`: the list is
\* read, and the retry starts unless the index is past its end or the
\* operation has no failed UIDs.
RetryFailedOperation(p, index) ==
    /\ inv[p].pc = "idle"
    /\ index < ui.retryButtons
    /\ LET failedOperations == getInstanceData("failedOperations", <<>>) IN
       IF index >= Len(failedOperations)
       THEN UNCHANGED <<inv, ui>>
       ELSE LET operation == failedOperations[index + 1]
                failedUids == operation.failedUids
            IN IF Len(failedUids) = 0
               THEN UNCHANGED <<inv, ui>>
               ELSE /\ ui' = updateProgress(
                                setStatus(setUIProcessingState(ui, TRUE),
                                          "Retrying failed photos...", FALSE),
                                0, Len(failedUids))
                    /\ inv' = [inv EXCEPT ![p] =
                                [Blank EXCEPT
                                    !.pc = "getData",
                                    !.kind = "retry",
                                    !.index = index,
                                    !.failedOperations = failedOperations,
                                    !.action = operation.action,
                                    !.labelName = operation.labelName,
                                    !.uids = failedUids,
                                    !.executionResult =
                                        ("isRetry" :> TRUE) @@
                                        [NoResult EXCEPT
                                            !.action = operation.action,
                                            !.labelName = operation.labelName,
                                            !.totalCount = Len(failedUids),
                                            !.startTime = now]]]
    /\ clicks' = clicks + 1
    /\ UNCHANGED <<storage, net, activeTab, now, page, configPage>>

\* A retry that gives the operation up when the data source fails: it
\* stores the list without it.
RetryDataReplyDropsGroup(p, reply) ==
    /\ inv[p].pc = "getData"
    /\ inv[p].kind = "retry"
    /\ LET l == inv[p] IN
       IF ~reply.success
       THEN /\ inv' = [inv EXCEPT ![p] = catchBlock(l, ErrDataSource)]
            /\ ui' = catchStatus(ui, l, ErrDataSource)
            /\ storage' = setInstanceData(storage, "failedOperations",
                                          splice(l.failedOperations, l.index + 1))
       ELSE IF l.action = "add"
       THEN /\ inv' = [inv EXCEPT ![p] = batchProcessStart(l, l.uids)]
            /\ ui' = updateProgress(ui, 0, Len(l.uids))
            /\ UNCHANGED storage
       ELSE /\ inv' = [inv EXCEPT ![p] = [l EXCEPT !.pc = "getLabelId"]]
            /\ UNCHANGED <<ui, storage>>
    /\ UNCHANGED <<net, activeTab, clicks, now, page, configPage>>

\* getPhotoPrismData settles with `reply`, of which the retry takes the
\* token only; it runs on to its next await.
RetryDataReply(p, reply) ==
    /\ inv[p].pc = "getData"
    /\ inv[p].kind = "retry"
    /\ LET l == inv[p] IN
       IF ~reply.success
       THEN /\ inv' = [inv EXCEPT ![p] = catchBlock(l, ErrDataSource)]
            /\ ui' = catchStatus(ui, l, ErrDataSource)
       ELSE IF l.action = "add"
       THEN /\ inv' = [inv EXCEPT ![p] = batchProcessStart(l, l.uids)]
            /\ ui' = updateProgress(ui, 0, Len(l.uids))
       ELSE /\ inv' = [inv EXCEPT ![p] = [l EXCEPT !.pc = "getLabelId"]]
            /\ UNCHANGED ui
    /\ UNCHANGED <<storage, net, activeTab, clicks, now, page, configPage>>

\* The list the retry read at its start is written back, without the
\* retried operation or with it updated.
RetryUpdate(p) ==
    /\ inv[p].pc = "retryUpdate"
    /\ LET l == inv[p]
           failedOperations == retryUpdate(l.failedOperations, l.index,
                                           l.executionResult.failedUids)
       IN IF setInstanceDataThrows
          THEN /\ inv' = [inv EXCEPT ![p] =
                            catchBlock([l EXCEPT !.failedOperations = failedOperations],
                                       ErrInstance)]
               /\ ui' = catchStatus(ui, l, ErrInstance)
               /\ UNCHANGED storage
          ELSE /\ storage' = setInstanceData(storage, "failedOperations",
                                             failedOperations)
               /\ inv' = [inv EXCEPT ![p].pc = "retryRefresh",
                                     ![p].failedOperations = failedOperations]
               /\ UNCHANGED ui
    /\ UNCHANGED <<net, activeTab, clicks, now, page, configPage>>

\* await forceRefreshAllDisplays(): popup.js calls it and does not define
\* it.  Where another script of the popup defines it the displays are
\* refreshed; where none does the call throws a ReferenceError into the
\* catch block.  Either way the finally block follows.
RetryRefresh(p, defined) ==
    /\ inv[p].pc = "retryRefresh"
    /\ LET l == inv[p] IN
       IF defined
       THEN /\ inv' = [inv EXCEPT ![p] = retryFinally(l)]
            /\ ui' = displayFailedOperations(
                        ui, getInstanceData("failedOperations", <<>>))
       ELSE /\ inv' = [inv EXCEPT ![p] = catchBlock(l, ErrNotDefined)]
            /\ ui' = catchStatus(ui, l, ErrNotDefined)
    /\ UNCHANGED <<storage, net, activeTab, clicks, now, page, configPage>>

\* The finally block: saveExecutionResult reads the history.
RetrySave(p) ==
    /\ inv[p].pc = "retrySave"
    /\ inv' = [inv EXCEPT ![p].pc = "retrySaveWrite",
                          ![p].read = getInstanceData("executionHistory", <<>>)]
    /\ UNCHANGED <<storage, ui, net, activeTab, clicks, now, page, configPage>>

\* The finally block: the retry's result is written, the displays are
\* refreshed and the controls enabled.  When the write throws, the rest of
\* the finally block is not run.
RetrySaveWrite(p) ==
    /\ inv[p].pc = "retrySaveWrite"
    /\ IF setInstanceDataThrows
       THEN UNCHANGED <<storage, ui>>
       ELSE /\ storage' = setInstanceData(storage, "executionHistory",
                            saveExecutionResult(inv[p].read, inv[p].resultWithId))
            /\ ui' = setUIProcessingState(
                        displayFailedOperations(
                            ui, getInstanceData("failedOperations", <<>>)),
                        FALSE)
    /\ inv' = [inv EXCEPT ![p].pc = "idle"]
    /\ UNCHANGED <<net, activeTab, clicks, now, page, configPage>>

(***************************************************************************)
(* Specifications.                                                         *)
(***************************************************************************)
Actions == {"add", "remove"}

\* The steps of an invocation once it has started.
Run(p) ==
    \/ GetLabelId(p)
    \/ \E r \in DetailResponses : DetailReply(p, r)
    \/ \E i \in 1..MaxBatch : IssueCall(p, i)
    \/ \E i \in 1..MaxBatch, r \in Responses : CallSettles(p, i, r)
    \/ \E i \in 1..MaxBatch : CallFinally(p, i)
    \/ BatchReturn(p)
    \/ SaveResult(p)
    \/ SaveResultWrite(p)
    \/ SaveFailed(p)
    \/ SaveFailedWrite(p)
    \/ AddRecent(p)
    \/ AddRecentAll(p)
    \/ AddRecentWrite(p)
    \/ AddRecentAllWrite(p)
    \/ SaveError(p)
    \/ SaveErrorWrite(p)

\* Spec: one click on Add or Remove in a newly installed popup, on any
\* selection of up to MaxBatch photos.
FirstClick ==
    /\ clicks = 0
    /\ \E action \in Actions, input \in {NameCat, NameDogSpace, NameBlank} :
            HandleAction("p1", action, input)

Next ==
    \/ FirstClick
    \/ \E reply \in DataReplies : DataReply("p1", reply)
    \/ Run("p1")

Spec == Init /\ [][Next]_vars

\* SpecResolve: up to MaxRuns clicks on Remove, one after the other, each
\* on the selection of the one photo x1.
RemoveClick ==
    /\ clicks < MaxRuns
    /\ \E input \in {NameCat, NameLowerCat, NameDog} :
            HandleAction("p1", "remove", input)

NextResolve ==
    \/ RemoveClick
    \/ DataReply("p1", [success |-> TRUE, uids |-> <<"x1">>])
    \/ Run("p1")

SpecResolve == Init /\ [][NextResolve]_vars

(***************************************************************************)
(* SpecTracker: up to MaxOps invocations, one after the other, of          *)
(* handleAction and retryFailedOperation in a popup whose instance has     *)
(* been in use: the failed operations and the history hold what earlier    *)
(* sessions left, the head of each list being the newest.                  *)
(***************************************************************************)
Digits == <<"0", "1", "2", "3", "4", "5", "6", "7", "8", "9">>

\* The k-th of the label names earlier sessions used.
EarlierName(k) == <<"f", Digits[(k \div 10) + 1], Digits[(k % 10) + 1]>>

\* n failed operations left by earlier sessions, the k-th saved k
\* milliseconds before the popup was opened: Add dog first, Remove Cat
\* last, each retried before.
EarlierOperations(n) ==
    [k \in 1..n |->
        IF k = 1
        THEN [action |-> "add", labelName |-> NameDog,
              failedUids |-> <<"x1", "x2">>, timestamp |-> -1, retryCount |-> 1]
        ELSE IF k = n
        THEN [action |-> "remove", labelName |-> NameCat,
              failedUids |-> <<"x1">>, timestamp |-> -n, retryCount |-> 2]
        ELSE [action |-> IF k % 2 = 0 THEN "add" ELSE "remove",
              labelName |-> EarlierName(k),
              failedUids |-> <<"x2">>, timestamp |-> -k, retryCount |-> 0]]

\* m results left by earlier sessions, the k-th saved k milliseconds before
\* the popup was opened.
EarlierHistory(m) ==
    [k \in 1..m |->
        ("id" :> -k) @@
        [NoResult EXCEPT !.action = "add",
                         !.labelName = EarlierName(k),
                         !.totalCount = 1,
                         !.successCount = 1,
                         !.startTime = -k]]

\* How many failed operations and results the stores hold at the start.
EarlierSizes == {<<2, 1>>, <<FailedCap, HistoryCap>>}

\* The popup once opened on an instance whose stores hold sizes[1] failed
\* operations and sizes[2] results: they are loaded and shown.
InitEarlier(sizes) ==
    /\ inv = [p \in Procs |-> Blank]
    /\ storage = (createInstanceKey("failedOperations", OriginA)
                        :> EarlierOperations(sizes[1]))
                 @@ (createInstanceKey("executionHistory", OriginA)
                        :> EarlierHistory(sizes[2]))
    /\ ui = [disabled |-> FALSE, progressShown |-> FALSE,
             progressText |-> <<0, 0>>, status |-> "",
             statusIsError |-> FALSE, retryButtons |-> sizes[1]]
    /\ net = [GET |-> 0, POST |-> 0, DELETE |-> 0]
    /\ activeTab = OriginA
    /\ clicks = 0
    /\ now = 0
    /\ page = NoPage
    /\ configPage = NoConfig

InitTracker == \E sizes \in EarlierSizes : InitEarlier(sizes)

TrackerReplies ==
    { [success |-> FALSE, uids |-> <<>>],
      [success |-> TRUE, uids |-> <<"x1">>] }

TrackerResponses ==
    { [status |-> 200, json |-> TRUE], [status |-> 500, json |-> TRUE] }

TrackerDetails ==
    { [ok |-> FALSE, Labels |-> <<>>],
      [ok |-> TRUE,
       Labels |-> <<[ID |-> 1, Name |-> NameCat, Slug |-> NameLowerCat]>>] }

\* The steps of an invocation of either kind once it has started.
TrackerRun(p) ==
    \/ \E reply \in TrackerReplies : DataReply(p, reply)
    \/ \E reply \in TrackerReplies : RetryDataReply(p, reply)
    \/ GetLabelId(p)
    \/ \E r \in TrackerDetails : DetailReply(p, r)
    \/ \E i \in 1..2 : IssueCall(p, i)
    \/ \E i \in 1..2, r \in TrackerResponses : CallSettles(p, i, r)
    \/ \E i \in 1..2 : CallFinally(p, i)
    \/ BatchReturn(p)
    \/ SaveResult(p)
    \/ SaveResultWrite(p)
    \/ SaveFailed(p)
    \/ SaveFailedWrite(p)
    \/ AddRecent(p)
    \/ AddRecentAll(p)
    \/ AddRecentWrite(p)
    \/ AddRecentAllWrite(p)
    \/ SaveError(p)
    \/ SaveErrorWrite(p)
    \/ RetryUpdate(p)
    \/ \E defined \in BOOLEAN : RetryRefresh(p, defined)
    \/ RetrySave(p)
    \/ RetrySaveWrite(p)

TrackerClick(p) ==
    /\ clicks < MaxOps
    /\ \E action \in Actions, input \in {NameLowerCat, NameDogSpace} :
            HandleAction(p, action, input)

\* A click on the first or on the last Retry button.
TrackerRetry(p) ==
    /\ clicks < MaxOps
    /\ \E index \in {0, ui.retryButtons - 1} :
            index >= 0 /\ RetryFailedOperation(p, index)

NextTracker ==
    \/ TrackerClick("p1")
    \/ TrackerRetry("p1")
    \/ TrackerRun("p1")

SpecTracker == InitTracker /\ [][NextTracker]_vars

\* SpecSettle: the runs and retries of SpecTracker on the smaller stores,
\* where the event loop runs every continuation that is ready and every
\* request that was sent is answered: a step of an invocation that stays
\* possible is eventually taken.
SpecSettle == InitEarlier(<<2, 1>>) /\ [][NextTracker]_vars /\ WF_vars(TrackerRun("p1"))

(***************************************************************************)
(* SpecOverlap: up to MaxOverlap invocations that may overlap.  The Add    *)
(* and Remove buttons are disabled while the display is in its processing  *)
(* state; the Retry buttons never are.  An invocation takes the slot p1    *)
(* when it is free and else the slot p2.                                   *)
(***************************************************************************)
InitOverlap == InitEarlier(<<2, 1>>)

slotFree(p) ==
    /\ inv[p].pc = "idle"
    /\ p = "p1" \/ inv["p1"].pc # "idle"

\* A click on Add with the label input holding "cat".
OverlapClick(p) ==
    /\ clicks < MaxOverlap
    /\ slotFree(p)
    /\ HandleAction(p, "add", NameLowerCat)

\* A click on the last Retry button.
OverlapRetry(p) ==
    /\ clicks < MaxOverlap
    /\ slotFree(p)
    /\ ui.retryButtons > 0
    /\ RetryFailedOperation(p, ui.retryButtons - 1)

NextOverlap ==
    \/ \E p \in Procs : OverlapClick(p)
    \/ \E p \in Procs : OverlapRetry(p)
    \/ \E p \in Procs : TrackerRun(p)

SpecOverlap == InitOverlap /\ [][NextOverlap]_vars

(***************************************************************************)
(* SpecInstance: up to MaxGestures clicks in a popup that is opened on one *)
(* tab after another: on the pages of three PhotoPrism instances and on a  *)
(* tab that has no URL.  Opening the popup is a click on the extension's   *)
(* icon; the popup closes when its tab loses the focus, so the active tab  *)
(* changes between invocations only.                                       *)
(***************************************************************************)
\* chrome.storage.local.remove(keys)
remove(st, keys) == [k \in DOMAIN st \ keys |-> st[k]]

\* clearLabelCache: the five keys of the active instance are removed and
\* the displays emptied; getCurrentInstanceId rejects on a tab without URL,
\* before anything is removed.
ClearLabelCache ==
    /\ IF getCurrentInstanceId = NoTab
       THEN UNCHANGED <<storage, ui>>
       ELSE /\ storage' = remove(storage,
                                 {createInstanceKey(baseKey, getCurrentInstanceId) :
                                    baseKey \in BaseKeys})
            /\ ui' = displayFailedOperations(
                        setStatus(ui, "All caches cleared.", FALSE), <<>>)
    /\ clicks' = clicks + 1
    /\ UNCHANGED <<inv, net, activeTab, now, page, configPage>>

\* The popup is opened on `tab`: popup.js starts anew and shows what the
\* stores of the tab's instance hold.
OpenPopup(tab) ==
    /\ activeTab' = tab
    /\ inv' = [p \in Procs |-> Blank]
    /\ ui' = [disabled |-> FALSE, progressShown |-> FALSE,
              progressText |-> <<0, 0>>, status |-> "", statusIsError |-> FALSE,
              retryButtons |->
                    IF tab = NoTab
                       \/ createInstanceKey("failedOperations", tab) \notin DOMAIN storage
                    THEN 0
                    ELSE Len(storage[createInstanceKey("failedOperations", tab)])]
    /\ clicks' = clicks + 1
    /\ UNCHANGED <<storage, net, now, page, configPage>>

allIdle == \A p \in Procs : inv[p].pc = "idle"

InstanceOpen ==
    /\ clicks < MaxGestures
    /\ allIdle
    /\ \E tab \in Origins \cup {NoTab} : tab # activeTab /\ OpenPopup(tab)

InstanceClick ==
    /\ clicks < MaxGestures
    /\ \E action \in Actions : HandleAction("p1", action, NameCat)

InstanceRetry ==
    /\ clicks < MaxGestures
    /\ RetryFailedOperation("p1", 0)

InstanceClear ==
    /\ clicks < MaxGestures
    /\ allIdle
    /\ ClearLabelCache

\* No content script answers on a tab that has no page.
InstanceReplies ==
    IF activeTab = NoTab
    THEN {[success |-> FALSE, uids |-> <<>>]}
    ELSE TrackerReplies \cup {[success |-> TRUE, uids |-> <<>>]}

InstanceRun(p) ==
    \/ \E reply \in InstanceReplies : DataReply(p, reply)
    \/ \E reply \in InstanceReplies : RetryDataReply(p, reply)
    \/ GetLabelId(p)
    \/ \E r \in TrackerDetails : DetailReply(p, r)
    \/ IssueCall(p, 1)
    \/ \E r \in TrackerResponses : CallSettles(p, 1, r)
    \/ CallFinally(p, 1)
    \/ BatchReturn(p)
    \/ SaveResult(p)
    \/ SaveResultWrite(p)
    \/ SaveFailed(p)
    \/ SaveFailedWrite(p)
    \/ AddRecent(p)
    \/ AddRecentAll(p)
    \/ AddRecentWrite(p)
    \/ AddRecentAllWrite(p)
    \/ SaveError(p)
    \/ SaveErrorWrite(p)
    \/ RetryUpdate(p)
    \/ \E defined \in BOOLEAN : RetryRefresh(p, defined)
    \/ RetrySave(p)
    \/ RetrySaveWrite(p)

NextInstance ==
    \/ InstanceOpen
    \/ InstanceClick
    \/ InstanceRetry
    \/ InstanceClear
    \/ InstanceRun("p1")

SpecInstance == Init /\ [][NextInstance]_vars

(***************************************************************************)
(* SpecLabels: up to MaxLabelRuns invocations of handleAction, one after   *)
(* the other, in a popup whose instance has been in use: the label lists,  *)
(* the label cache, the failed operations and the history hold what        *)
(* earlier sessions left.                                                  *)
(***************************************************************************)
\* The n labels earlier sessions used, the newest first: "dog" last of
\* all, "cat" first of all.
EarlierRecent(n) ==
    [k \in 1..n |->
        IF k = 1 THEN NameDog
        ELSE IF k = n THEN NameLowerCat
        ELSE EarlierName(k)]

\* How many labels the lists hold at the start.
EarlierLabels == {2, RecentCap}

InitLabels ==
    /\ \E n \in EarlierLabels :
            storage = (createInstanceKey("failedOperations", OriginA)
                            :> EarlierOperations(2))
                      @@ (createInstanceKey("executionHistory", OriginA)
                            :> EarlierHistory(1))
                      @@ (createInstanceKey("labelCache", OriginA)
                            :> (NameCat :> 1))
                      @@ (createInstanceKey("recentLabels", OriginA)
                            :> EarlierRecent(n))
                      @@ (createInstanceKey("allLabels", OriginA)
                            :> sort(EarlierRecent(n)))
    /\ inv = [p \in Procs |-> Blank]
    /\ ui = [disabled |-> FALSE, progressShown |-> FALSE,
             progressText |-> <<0, 0>>, status |-> "",
             statusIsError |-> FALSE, retryButtons |-> 2]
    /\ net = [GET |-> 0, POST |-> 0, DELETE |-> 0]
    /\ activeTab = OriginA
    /\ clicks = 0
    /\ now = 0
    /\ page = NoPage
    /\ configPage = NoConfig

LabelsReplies ==
    { [success |-> TRUE, uids |-> <<>>],
      [success |-> TRUE, uids |-> <<"x1">>] }

LabelsClick ==
    /\ clicks < MaxLabelRuns
    /\ \E action \in Actions,
          input \in {NameCat, NameDogSpace, NameA} :
            HandleAction("p1", action, input)

LabelsRun(p) ==
    \/ \E reply \in LabelsReplies : DataReply(p, reply)
    \/ GetLabelId(p)
    \/ \E r \in TrackerDetails : DetailReply(p, r)
    \/ IssueCall(p, 1)
    \/ \E r \in TrackerResponses : CallSettles(p, 1, r)
    \/ CallFinally(p, 1)
    \/ BatchReturn(p)
    \/ SaveResult(p)
    \/ SaveResultWrite(p)
    \/ SaveFailed(p)
    \/ SaveFailedWrite(p)
    \/ AddRecent(p)
    \/ AddRecentAll(p)
    \/ AddRecentWrite(p)
    \/ AddRecentAllWrite(p)
    \/ SaveError(p)
    \/ SaveErrorWrite(p)

NextLabels ==
    \/ LabelsClick
    \/ LabelsRun("p1")

SpecLabels == InitLabels /\ [][NextLabels]_vars

(***************************************************************************)
(* SpecClock: up to MaxStamps invocations, overlapping or not, while the   *)
(* clock runs.  The data source fails, so that every invocation goes       *)
(* straight to saving its result.  Two clicks are more than a millisecond  *)
(* apart; the answers of the data source come when they come.              *)
(***************************************************************************)
\* A millisecond passes.
Tick ==
    /\ now < MaxClock
    /\ now' = now + 1
    /\ UNCHANGED <<inv, storage, ui, net, activeTab, clicks, page, configPage>>

\* The clock has moved on since the last click.
clickedBefore ==
    \A q \in Procs :
        inv[q].kind # "none" => inv[q].executionResult.startTime < now

ClockClick(p) ==
    /\ clicks < MaxStamps
    /\ slotFree(p)
    /\ clickedBefore
    /\ HandleAction(p, "add", NameLowerCat)

ClockRetry(p) ==
    /\ clicks < MaxStamps
    /\ slotFree(p)
    /\ clickedBefore
    /\ RetryFailedOperation(p, 0)

ClockRun(p) ==
    \/ DataReply(p, [success |-> FALSE, uids |-> <<>>])
    \/ RetryDataReply(p, [success |-> FALSE, uids |-> <<>>])
    \/ SaveError(p)
    \/ SaveErrorWrite(p)
    \/ RetrySave(p)
    \/ RetrySaveWrite(p)

NextClock ==
    \/ Tick
    \/ \E p \in Procs : ClockClick(p)
    \/ \E p \in Procs : ClockRetry(p)
    \/ \E p \in Procs : ClockRun(p)

SpecClock == InitOverlap /\ [][NextClock]_vars

(***************************************************************************)
(* The content script (content.js) in the page of the active tab, and      *)
(* SpecContent: the page loads, the user logs in and out and selects       *)
(* photos, the configuration page changes the allowed domains, and the     *)
(* popup sends up to MaxRequests getPhotoPrismData requests.               *)
(***************************************************************************)
OriginDemo == <<"https", ":", "/", "/", "demo", ".", "photoprism", ".", "app">>

\* An allowed domain with a wildcard: https://*.b
DomainWild == <<"https", ":", "/", "/", "*", ".", "b">>

DEFAULT_CONFIG == [allowedDomains |-> <<OriginDemo>>]

PluginConfigKey == <<"pluginConfig">>

ErrDisabled == "Plugin is disabled for this page"
ErrNoToken == "Authentication token not found. Please log in to PhotoPrism."
ErrLocalStorage == "Failed to read data from localStorage."

RECURSIVE test(_, _)
\* new RegExp(`^${pattern}$`).test(str), where pattern is the domain with
\* every * replaced by .* : a * stands for any characters, a . for any one
\* character, every other character for itself.
test(domain, str) ==
    IF domain = <<>> THEN str = <<>>
    ELSE IF Head(domain) = "*"
    THEN \E k \in 0..Len(str) : test(Tail(domain), SubSeq(str, k + 1, Len(str)))
    ELSE IF str = <<>> THEN FALSE
    ELSE /\ Head(domain) = "." \/ Head(domain) = Head(str)
         /\ test(Tail(domain), Tail(str))

\* domain.includes('*')
includesStar(domain) == \E i \in DOMAIN domain : domain[i] = "*"

\* isUrlAllowed, of a page whose origin is baseUrl.
isUrlAllowed(baseUrl, allowedDomains) ==
    /\ Len(allowedDomains) # 0
    /\ \E i \in DOMAIN allowedDomains :
            LET domain == allowedDomains[i] IN
            \/ domain = baseUrl
            \/ includesStar(domain) /\ test(domain, baseUrl)

\* isPluginEnabled: the stored configuration, or the default one when
\* none is stored, allows the page's origin.
isPluginEnabled ==
    LET config == IF PluginConfigKey \in DOMAIN storage
                  THEN storage[PluginConfigKey] ELSE DEFAULT_CONFIG
    IN isUrlAllowed(activeTab, config.allowedDomains)

\* A handler that answers with the data whenever photos are selected.
respondWhenSelected(token, clipboard) ==
    IF clipboard.kind = "garbage"
    THEN [success |-> FALSE, uids |-> <<>>, token |-> Null,
          error |-> ErrLocalStorage]
    ELSE IF clipboard.uids # <<>> \/ token # Null
    THEN [success |-> TRUE, uids |-> clipboard.uids, token |-> token, error |-> ""]
    ELSE [success |-> FALSE, uids |-> <<>>, token |-> Null, error |-> ErrNoToken]

\* The try block of handleGetPhotoPrismData: what it answers with, given
\* the two items of localStorage.  An absent clipboard reads as '[]'; one
\* that is not JSON makes JSON.parse throw.
respond(token, clipboard) ==
    IF clipboard.kind = "garbage"
    THEN [success |-> FALSE, uids |-> <<>>, token |-> Null,
          error |-> ErrLocalStorage]
    ELSE IF token # Null
    THEN [success |-> TRUE, uids |-> clipboard.uids, token |-> token, error |-> ""]
    ELSE [success |-> FALSE, uids |-> <<>>, token |-> Null, error |-> ErrNoToken]

\* The content script runs in the page: isPluginEnabled().then(...) sets
\* up the message listener if the page is enabled, and never otherwise.
LoadContentScript ==
    /\ ~page.loaded
    /\ page' = [page EXCEPT !.loaded = TRUE, !.listening = isPluginEnabled]
    /\ UNCHANGED <<inv, storage, ui, net, activeTab, clicks, now, configPage>>

\* The popup's chrome.tabs.sendMessage: the listener, if there is one,
\* calls handleGetPhotoPrismData, which awaits isPluginEnabled(); with no
\* listener the request is answered by nobody.
ReceiveRequest ==
    /\ page.request = "none"
    /\ page' = [page EXCEPT !.requests = @ + 1,
                            !.request = IF page.listening THEN "received"
                                        ELSE "none"]
    /\ UNCHANGED <<inv, storage, ui, net, activeTab, clicks, now, configPage>>

\* isPluginEnabled() has resolved: a disabled page answers that it is, an
\* enabled one goes on to read localStorage.
CheckEnabled ==
    /\ page.request = "received"
    /\ page' = IF isPluginEnabled
               THEN [page EXCEPT !.request = "enabled"]
               ELSE [page EXCEPT !.request = "none",
                                 !.answers = @ + 1,
                                 !.answer = [success |-> FALSE, uids |-> <<>>,
                                             token |-> Null,
                                             error |-> ErrDisabled]]
    /\ UNCHANGED <<inv, storage, ui, net, activeTab, clicks, now, configPage>>

\* The try block of handleGetPhotoPrismData.
SendResponse ==
    /\ page.request = "enabled"
    /\ page' = [page EXCEPT !.request = "none",
                            !.answers = @ + 1,
                            !.answer = respond(page.token, page.clipboard)]
    /\ UNCHANGED <<inv, storage, ui, net, activeTab, clicks, now, configPage>>

\* The page writes its localStorage: the user logs in or out.
SetToken(token) ==
    /\ page.token # token
    /\ page' = [page EXCEPT !.token = token]
    /\ UNCHANGED <<inv, storage, ui, net, activeTab, clicks, now, configPage>>

\* The page writes its localStorage: the selection changes.
SetClipboard(clipboard) ==
    /\ page.clipboard # clipboard
    /\ page' = [page EXCEPT !.clipboard = clipboard]
    /\ UNCHANGED <<inv, storage, ui, net, activeTab, clicks, now, configPage>>

\* The configuration page (config.js) stores the allowed domains.
SaveConfig(allowedDomains) ==
    /\ ~(/\ PluginConfigKey \in DOMAIN storage
         /\ storage[PluginConfigKey].allowedDomains = allowedDomains)
    /\ storage' = (PluginConfigKey :> [allowedDomains |-> allowedDomains]) @@ storage
    /\ UNCHANGED <<inv, ui, net, activeTab, clicks, now, page, configPage>>

Clipboards ==
    { NoClipboard,
      [kind |-> "garbage", uids |-> <<>>],
      [kind |-> "json", uids |-> <<>>],
      [kind |-> "json", uids |-> <<"x1">>] }

ConfigLists == { <<>>, <<OriginA>>, <<DomainWild>> }

InitContent ==
    /\ inv = [p \in Procs |-> Blank]
    /\ storage = << >>
    /\ ui = [disabled |-> FALSE, progressShown |-> FALSE,
             progressText |-> <<0, 0>>, status |-> "", statusIsError |-> FALSE,
             retryButtons |-> 0]
    /\ net = [GET |-> 0, POST |-> 0, DELETE |-> 0]
    /\ activeTab \in {OriginA, OriginDash, OriginDemo}
    /\ clicks = 0
    /\ now = 0
    /\ page = NoPage
    /\ configPage = NoConfig

NextContent ==
    \/ LoadContentScript
    \/ page.requests < MaxRequests /\ ReceiveRequest
    \/ CheckEnabled
    \/ SendResponse
    \/ \E token \in {Null, "t"} : SetToken(token)
    \/ \E clipboard \in Clipboards : SetClipboard(clipboard)
    \/ \E allowedDomains \in ConfigLists : SaveConfig(allowedDomains)

SpecContent == InitContent /\ [][NextContent]_vars

(***************************************************************************)
(* The clear operations of the configuration page (config.js), and         *)
(* SpecConfig: one run or retry of the popup on an instance whose stores   *)
(* hold failed operations, a history, a label cache and label lists, with  *)
(* up to MaxClears clicks on the clear buttons at any moment.              *)
(***************************************************************************)
ClearOperations ==
    {"clearLabelCache", "clearRecentLabels", "clearExecutionHistory",
     "clearFailedOperations", "clearAllCache"}

\* The keys each operation hands to chrome.storage.local.remove: the base
\* keys as they are.
clearedKeys(operation) ==
    CASE operation = "clearLabelCache" -> {<<"labelCache">>}
      [] operation = "clearRecentLabels" -> {<<"recentLabels">>, <<"allLabels">>}
      [] operation = "clearExecutionHistory" -> {<<"executionHistory">>}
      [] operation = "clearFailedOperations" -> {<<"failedOperations">>}
      [] operation = "clearAllCache" -> {<<baseKey>> : baseKey \in BaseKeys}

\* What each operation shows when the removal has resolved.
clearedStatus(operation) ==
    CASE operation = "clearLabelCache" -> "Label cache cleared successfully"
      [] operation = "clearRecentLabels" -> "Recent labels cleared successfully"
      [] operation = "clearExecutionHistory" -> "Execution history cleared successfully"
      [] operation = "clearFailedOperations" -> "Failed operations cleared successfully"
      [] operation = "clearAllCache" -> "All cache cleared successfully"

\* A click on one of the clear buttons of the configuration page.
ConfigClear(operation) ==
    /\ storage' = remove(storage, clearedKeys(operation))
    /\ configPage' = [status |-> clearedStatus(operation), isError |-> FALSE,
                      clicks |-> configPage.clicks + 1]
    /\ UNCHANGED <<inv, ui, net, activeTab, clicks, now, page>>

InitConfig ==
    /\ storage = (createInstanceKey("failedOperations", OriginA)
                        :> EarlierOperations(2))
                 @@ (createInstanceKey("executionHistory", OriginA)
                        :> EarlierHistory(1))
                 @@ (createInstanceKey("labelCache", OriginA)
                        :> (NameCat :> 1))
                 @@ (createInstanceKey("recentLabels", OriginA)
                        :> EarlierRecent(2))
                 @@ (createInstanceKey("allLabels", OriginA)
                        :> sort(EarlierRecent(2)))
    /\ inv = [p \in Procs |-> Blank]
    /\ ui = [disabled |-> FALSE, progressShown |-> FALSE,
             progressText |-> <<0, 0>>, status |-> "",
             statusIsError |-> FALSE, retryButtons |-> 2]
    /\ net = [GET |-> 0, POST |-> 0, DELETE |-> 0]
    /\ activeTab = OriginA
    /\ clicks = 0
    /\ now = 0
    /\ page = NoPage
    /\ configPage = NoConfig

ConfigClick ==
    /\ configPage.clicks < MaxClears
    /\ \E operation \in ClearOperations : ConfigClear(operation)

\* A click on Remove with the label input holding "Cat", which the label
\* cache holds, or " Dog ", which it does not.
ConfigRun ==
    /\ clicks = 0
    /\ \E input \in {NameCat, NameDogSpace} : HandleAction("p1", "remove", input)

\* A click on the first Retry button.
ConfigRetry ==
    /\ clicks = 0
    /\ RetryFailedOperation("p1", 0)

NextConfig ==
    \/ ConfigClick
    \/ ConfigRun
    \/ ConfigRetry
    \/ TrackerRun("p1")

SpecConfig == InitConfig /\ [][NextConfig]_vars

(***************************************************************************)
(* SpecNavigate: one run or retry started on https://a.b, whose page       *)
(* answers the data request; afterwards, while the invocation is in        *)
(* flight, the active tab changes up to MaxNavigations times: to the page  *)
(* of another instance, to a tab without URL, or back.                     *)
(***************************************************************************)
\* The active tab now shows `tab`.
Navigate(tab) ==
    /\ activeTab' = tab
    /\ clicks' = clicks + 1
    /\ UNCHANGED <<inv, storage, ui, net, now, page, configPage>>

NavigateAway ==
    /\ inv["p1"].pc \notin {"idle", "getData"}
    /\ clicks <= MaxNavigations
    /\ \E tab \in {OriginA, OriginC, NoTab} : tab # activeTab /\ Navigate(tab)

\* A click on Add or Remove with the label input holding "Cat".
NavigateRun ==
    /\ clicks = 0
    /\ \E action \in Actions : HandleAction("p1", action, NameCat)

\* A click on the first or on the second Retry button.
NavigateRetry ==
    /\ clicks = 0
    /\ \E index \in {0, 1} : RetryFailedOperation("p1", index)

NextNavigate ==
    \/ NavigateRun
    \/ NavigateRetry
    \/ NavigateAway
    \/ TrackerRun("p1")

SpecNavigate == InitEarlier(<<2, 1>>) /\ [][NextNavigate]_vars

(***************************************************************************)
(* Properties of batchProcess.                                             *)
(***************************************************************************)
\* The calls of invocation l that settled as `outcome`.
callsWith(l, outcome) == {i \in DOMAIN l.calls : l.calls[i].outcome = outcome}

\* How often x occurs in the sequence a.
occurrences(a, x) == Cardinality({k \in DOMAIN a : a[k] = x})

\* C1: the result batchProcess returns for N identifiers has
\* successCount + failedCount = N and as many failedUids as failedCount,
\* whatever calls succeed or reject.
C1_CountsAddUp ==
    \A p \in Procs :
        inv[p].returned =>
            /\ inv[p].result.successCount + inv[p].result.failedCount
                    = Len(inv[p].batchUids)
            /\ Len(inv[p].result.failedUids) = inv[p].result.failedCount

C1_Witness ==
    /\ inv["p1"].returned
    /\ Len(inv["p1"].batchUids) = 2
    /\ inv["p1"].result.successCount = 1
    /\ inv["p1"].result.failedCount = 1

\* C2: at every moment of a batch failedUids holds exactly the identifiers
\* of the calls that rejected, each as often as it rejected, failedCount and
\* successCount count the rejected and the fulfilled calls, and so it is in
\* the result returned.
C2_FailedUidsAreTheRejected ==
    \A p \in Procs :
        LET l == inv[p] IN
        /\ \A x \in Ids :
                occurrences(l.failedUids, x)
                    = Cardinality({i \in callsWith(l, "rejected") : l.batchUids[i] = x})
        /\ l.failedCount = Cardinality(callsWith(l, "rejected"))
        /\ l.successCount = Cardinality(callsWith(l, "fulfilled"))
        /\ l.returned => l.result = batchResult(l)

C2_Witness ==
    /\ inv["p1"].returned
    /\ inv["p1"].batchUids = <<"x1", "x1">>
    /\ inv["p1"].result.failedUids = <<"x1", "x1">>

\* C3: batchProcess has returned only when every one of its calls was
\* sent, has settled and has run its callbacks; a rejected call neither
\* ends the batch early nor reaches the caller as an error.
C3_ReturnsAfterAllSettled ==
    \A p \in Procs :
        LET l == inv[p] IN
        /\ l.returned =>
            /\ DOMAIN l.calls = DOMAIN l.batchUids
            /\ \A i \in DOMAIN l.calls :
                    /\ l.calls[i].phase = "done"
                    /\ l.calls[i].sent >= 1
                    /\ l.calls[i].outcome \in {"fulfilled", "rejected"}
            /\ l.executionResult.error = Null
        /\ callsWith(l, "rejected") # {} => l.pc # "saveError"

C3_Witness ==
    /\ inv["p1"].returned
    /\ Len(inv["p1"].calls) = 2
    /\ inv["p1"].calls[1].outcome = "rejected"
    /\ inv["p1"].calls[2].outcome = "fulfilled"
    /\ inv["p1"].result.failedUids = <<"x1">>

\* C4: in a batch of N identifiers the k-th progress report is (k - 1, N):
\* one report (0, N) at the start and one more after each completion, the
\* display shows the last report, and (N, N) has been reported when
\* batchProcess returns.
C4_ProgressCountsUp ==
    \A p \in Procs :
        LET l == inv[p] IN
        l.calls # <<>> =>
            /\ Len(l.reports)
                    = 1 + Cardinality({i \in DOMAIN l.calls : l.calls[i].phase = "done"})
            /\ \A k \in DOMAIN l.reports : l.reports[k] = <<k - 1, Len(l.batchUids)>>
            /\ ui.progressText = l.reports[Len(l.reports)]
            /\ l.returned => l.reports[Len(l.reports)]
                                = <<Len(l.batchUids), Len(l.batchUids)>>

C4_Witness ==
    /\ inv["p1"].returned
    /\ inv["p1"].reports = << <<0, 2>>, <<1, 2>> , <<2, 2>> >>
    /\ inv["p1"].result.failedCount = 1

RECURSIVE inOrderResult(_, _, _)
\* What batchProcess returns when the first n calls complete in the order
\* of uids, call i settling as outcomes[i].
inOrderResult(uids, outcomes, n) ==
    IF n = 0
    THEN [successCount |-> 0, failedCount |-> 0, failedUids |-> <<>>]
    ELSE LET r == inOrderResult(uids, outcomes, n - 1) IN
         IF outcomes[n] = "fulfilled"
         THEN [r EXCEPT !.successCount = @ + 1]
         ELSE [r EXCEPT !.failedCount = @ + 1,
                        !.failedUids = Append(@, uids[n])]

seqToSet(a) == {a[k] : k \in DOMAIN a}

\* C5: whatever the order in which the calls complete, batchProcess
\* returns the successCount, the failedCount and the set of failedUids it
\* returns when the calls complete in the order of uids with the same
\* outcomes.
C5_OrderIndependent ==
    \A p \in Procs :
        LET l == inv[p]
            r == inOrderResult(l.batchUids,
                               [i \in DOMAIN l.calls |-> l.calls[i].outcome],
                               Len(l.calls))
        IN l.returned =>
            /\ l.result.successCount = r.successCount
            /\ l.result.failedCount = r.failedCount
            /\ seqToSet(l.result.failedUids) = seqToSet(r.failedUids)

\* The second call failed before the first one did.
C5_Witness ==
    /\ inv["p1"].returned
    /\ inv["p1"].batchUids = <<"x1", "x2">>
    /\ inv["p1"].result.failedUids = <<"x2", "x1">>

\* C6: every call of a batch is sent at most once, and when batchProcess
\* returns every identifier occurrence had its one request, failed or not:
\* the requests sent are as many as the identifiers.
C6_OneCallPerIdentifier ==
    \A p \in Procs :
        LET l == inv[p] IN
        /\ \A i \in DOMAIN l.calls : l.calls[i].sent <= 1
        /\ l.returned =>
            /\ \A i \in DOMAIN l.batchUids : l.calls[i].sent = 1
            /\ net.POST + net.DELETE = Len(l.batchUids)

C6_Witness ==
    /\ inv["p1"].returned
    /\ inv["p1"].action = "add"
    /\ Len(inv["p1"].calls) = 2
    /\ inv["p1"].calls[1].outcome = "rejected"
    /\ inv["p1"].calls[2].outcome = "rejected"
    /\ net.POST = 2
(***************************************************************************)
(* Properties of the API functions and of getLabelId.                      *)
(***************************************************************************)
\* C7: a DELETE answered with 404 counts as a success, a DELETE answered
\* with any other status outside 200..299 as a failure; a POST answered
\* with any status outside 200..299, 404 too, counts as a failure.
C7_StatusDecidesOutcome ==
    \A p \in Procs :
        \A i \in DOMAIN inv[p].calls :
            LET c == inv[p].calls[i] IN
            c.phase \in {"counted", "done"} /\ c.resp # FetchRejected =>
                IF inv[p].action = "remove"
                THEN /\ c.resp.status = 404 => c.outcome = "fulfilled"
                     /\ ~ok(c.resp) /\ c.resp.status # 404 => c.outcome = "rejected"
                ELSE ~ok(c.resp) => c.outcome = "rejected"

\* The execution history of the active instance.
History == getInstanceData("executionHistory", <<>>)

\* C8: a Remove sends at most one detail request, for the first selected
\* photo, and no DELETE before the label ID is known; when the resolution
\* fails no DELETE is ever sent and the result recorded has successCount 0,
\* failedCount 0 and the error.
C8_ResolveBeforeDelete ==
    \A p \in Procs :
        LET l == inv[p] IN
        l.action # "none" =>
            /\ net.GET <= 1
            /\ net.GET = 1 => l.action = "remove" /\ l.detailUid = l.uids[1]
            /\ net.DELETE > 0 =>
                    /\ l.action = "remove"
                    /\ l.labelId \in LabelIds
                    /\ l.pc \notin {"getData", "getLabelId", "fetchDetail"}
            /\ l.pc \in {"saveError", "idle"} /\ net.GET = 1 /\ l.labelId \notin LabelIds =>
                    /\ l.executionResult.error \in {ErrFetchDetail, ErrNotFound}
                    /\ l.executionResult.successCount = 0
                    /\ l.executionResult.failedCount = 0
                    /\ net.DELETE = 0
                    /\ l.pc = "idle" => History = <<l.resultWithId>>
                    /\ \A f \in DOMAIN l.executionResult :
                            l.resultWithId[f] = l.executionResult[f]

C8_Witness ==
    /\ inv["p1"].pc = "idle"
    /\ inv["p1"].action = "remove"
    /\ Len(inv["p1"].uids) = 2
    /\ inv["p1"].executionResult.error = ErrNotFound
    /\ net = [GET |-> 1, POST |-> 0, DELETE |-> 0]
    /\ Len(History) = 1
    /\ History[1].error = ErrNotFound

\* C9: a label name that has been resolved and cached is not fetched
\* again: the second resolution is answered from the cache, whatever ID
\* the service returned for it.
C9_SecondResolveFromCache ==
    \A p \in Procs :
        inv[p].pc = "fetchDetail" =>
            cacheKey(inv[p].labelName) \notin DOMAIN inv[p].labelCache

\* The label cache of the active instance.
LabelCache == getInstanceData("labelCache", EmptyObject)

\* C10 as claimed: once a name is cached with its ID, no name that differs
\* from it only in case is fetched, and the cache never holds two names
\* that differ only in case.
C10_CaseInsensitiveCache ==
    /\ \A p \in Procs :
            inv[p].pc = "fetchDetail" =>
                \A n \in DOMAIN inv[p].labelCache :
                    ~ /\ n # inv[p].labelName
                      /\ toLowerCase(n) = toLowerCase(inv[p].labelName)
                      /\ inv[p].labelCache[n] # 0
    /\ \A n, m \in DOMAIN LabelCache :
            toLowerCase(n) = toLowerCase(m) => n = m

\* C10, amended: the cache is keyed by the name as typed.  A lookup of a
\* name that is not itself a key sends the detail request, also when a
\* name that differs only in case is cached; and a resolution by the
\* service writes the entry of the name as typed and leaves every other
\* entry as it was.
C10_CaseSensitiveCache ==
    [][\A p \in Procs :
        LET l == inv[p] IN
        /\ l.pc = "getLabelId" /\ inv'[p].pc # "getLabelId"
                /\ l.labelName \notin DOMAIN LabelCache =>
            /\ inv'[p].pc = "fetchDetail"
            /\ net'.GET = net.GET + 1
            /\ LabelCache' = LabelCache
        /\ l.pc = "fetchDetail" /\ inv'[p].pc = "batch" =>
            /\ DOMAIN LabelCache' = DOMAIN LabelCache \cup {l.labelName}
            /\ LabelCache'[l.labelName] = inv'[p].labelId
            /\ \A n \in DOMAIN LabelCache :
                    n # l.labelName => LabelCache'[n] = LabelCache[n]
    ]_vars

\* Cat and cat each have their own entry.
C10_Witness ==
    /\ NameCat \in DOMAIN LabelCache
    /\ NameLowerCat \in DOMAIN LabelCache
    /\ LabelCache[NameCat] = 1
    /\ LabelCache[NameLowerCat] = 1

(***************************************************************************)
(* Properties of the failed operations and of the history.                 *)
(***************************************************************************)
\* The failed operations of the active instance.
FailedOperations == getInstanceData("failedOperations", <<>>)

\* The key of a failed operation: its action and its label in lower case.
keyOf(op) == <<op.action, toLowerCase(op.labelName)>>

keysOf(failedOperations) ==
    {keyOf(failedOperations[k]) : k \in DOMAIN failedOperations}

\* C11: the stored list of failed operations never holds two operations
\* with the same action and the same label up to case, also when
\* invocations of handleAction and retryFailedOperation overlap.
C11_OneGroupPerKey ==
    \A i, j \in DOMAIN FailedOperations :
        keyOf(FailedOperations[i]) = keyOf(FailedOperations[j]) => i = j

\* A retry overlapped an Add of cat; the retry wrote its update first and
\* the Add then stored its failure.
C11_Witness ==
    /\ inv["p1"].kind = "run"
    /\ inv["p2"].kind = "retry"
    /\ inv["p1"].pc = "idle"
    /\ inv["p2"].pc = "idle"
    /\ Len(FailedOperations) = 3
    /\ keyOf(FailedOperations[1]) = <<"add", NameLowerCat>>
    /\ FailedOperations[3].retryCount = 3

\* C12: the list of failed operations never holds more than 20, and when
\* an operation with a new key is added while 20 are stored, the one
\* dropped is one with the oldest timestamp and the others are kept.
C12_EvictsOldest ==
    [][LET old == FailedOperations
           new == FailedOperations'
       IN /\ Len(new) <= FailedCap
          /\ Len(old) = FailedCap /\ new # old /\ new # <<>>
                /\ keyOf(new[1]) \notin keysOf(old) =>
                \E e \in DOMAIN old :
                    /\ \A k \in DOMAIN old :
                            old[e].timestamp <= old[k].timestamp
                    /\ new = <<new[1]>> \o splice(old, e)
    ]_vars

\* C13: the history never holds more than 50 results and its head is the
\* newest (no result has a smaller id than one behind it); recording a
\* result puts it at the head, the results stored before follow it as they
\* were and in their order, and when 50 were stored exactly the last of
\* them, the oldest, is dropped.
C13_HistoryKeepsNewest ==
    [][LET old == History
           new == History'
       IN /\ Len(new) <= HistoryCap
          /\ \A k \in 1..(Len(new) - 1) : new[k].id >= new[k + 1].id
          /\ new # old =>
                /\ \E p \in Procs : new[1] = inv[p].resultWithId
                /\ Tail(new) = IF Len(old) = HistoryCap
                               THEN SubSeq(old, 1, HistoryCap - 1)
                               ELSE old
                /\ \A k \in DOMAIN old : old[Len(old)].id <= old[k].id
    ]_vars

\* The 51st result was recorded: the result saved 50 ms before the popup
\* was opened is gone, the one saved 49 ms before is the last.
C13_Witness ==
    /\ Len(History) = HistoryCap
    /\ History[1].id = now
    /\ History[1].startTime = now
    /\ History[HistoryCap].id = 1 - HistoryCap

\* The sequence a without its e-th element.
without(a, e) == [k \in 1..(Len(a) - 1) |-> IF k < e THEN a[k] ELSE a[k + 1]]

\* The key of the operation invocation l works on.
keyIn(l) == <<l.action, toLowerCase(l.labelName)>>

\* C14: when every call of a retry succeeded, the retry writes the list
\* without the retried operation and with every other operation as it was
\* and where it was; from then to the end of the retry no operation of
\* that key is stored.
C14_RetrySuccessRemoves ==
    [][\A p \in Procs :
        LET l == inv[p]
            old == FailedOperations
            new == FailedOperations'
        IN /\ l.kind = "retry" /\ l.pc = "retryUpdate" /\ inv'[p].pc # l.pc
                /\ l.failedCount = 0 =>
                \E e \in DOMAIN old :
                    /\ e = l.index + 1
                    /\ keyOf(old[e]) = keyIn(l)
                    /\ new = without(old, e)
           /\ l.kind = "retry" /\ l.returned /\ l.failedCount = 0
                /\ l.pc # "retryUpdate" =>
                keyIn(l) \notin keysOf(old)
    ]_vars

\* The retry of the last of 20 operations succeeded: 19 are left.
C14_Witness ==
    /\ inv["p1"].kind = "retry"
    /\ inv["p1"].pc = "idle"
    /\ inv["p1"].index = FailedCap - 1
    /\ inv["p1"].returned
    /\ inv["p1"].failedCount = 0
    /\ Len(FailedOperations) = FailedCap - 1
    /\ FailedOperations[1] = EarlierOperations(FailedCap)[1]

\* C15: when a call of a retry failed, the retry writes the list with the
\* retried operation where it was, its failedUids those of the calls that
\* failed in this retry, its retryCount one more and its timestamp the
\* time of the update; its action and label and every other operation are
\* as they were.
C15_RetryFailureUpdates ==
    [][\A p \in Procs :
        LET l == inv[p]
            old == FailedOperations
            new == FailedOperations'
            e == l.index + 1
        IN l.kind = "retry" /\ l.pc = "retryUpdate" /\ inv'[p].pc # l.pc
                /\ l.failedCount > 0 =>
            /\ Len(new) = Len(old)
            /\ \A k \in DOMAIN old : k # e => new[k] = old[k]
            /\ new[e].action = old[e].action
            /\ new[e].labelName = old[e].labelName
            /\ new[e].failedUids = l.failedUids
            /\ \A x \in Ids :
                    occurrences(new[e].failedUids, x)
                        = Cardinality({i \in callsWith(l, "rejected") :
                                            l.batchUids[i] = x})
            /\ new[e].retryCount = old[e].retryCount + 1
            /\ new[e].timestamp = now
            /\ new[e].timestamp >= old[e].timestamp
    ]_vars

\* The retry of Add dog on x1 and x2 failed on x2 only.
C15_Witness ==
    /\ inv["p1"].kind = "retry"
    /\ inv["p1"].pc = "idle"
    /\ Len(FailedOperations) = FailedCap
    /\ FailedOperations[1] =
            [action |-> "add", labelName |-> NameDog, failedUids |-> <<"x2">>,
             timestamp |-> now, retryCount |-> 2]

\* a is a sub-collection of b: no identifier occurs in a more often than
\* in b.
subCollection(a, b) == \A x \in Ids : occurrences(a, x) <= occurrences(b, x)

\* C16: a retry works on the failedUids of the operation at its index as
\* it read them at its start: its batch is over exactly these, each call
\* is sent once, the requests sent are those of its calls, and after a
\* retry that left failures the failedUids of the operation are a
\* sub-collection of the ones read.
C16_RetriesWhatFailed ==
    \A p \in Procs :
        LET l == inv[p] IN
        l.kind = "retry" =>
            /\ l.pc \in {"getData", "getLabelId", "fetchDetail", "batch",
                         "retryUpdate"} =>
                    /\ l.uids = l.failedOperations[l.index + 1].failedUids
                    /\ l.uids = FailedOperations[l.index + 1].failedUids
            /\ l.calls # <<>> => l.batchUids = l.uids
            /\ \A i \in DOMAIN l.calls : l.calls[i].sent <= 1
            /\ l.returned => \A i \in DOMAIN l.uids : l.calls[i].sent = 1
            /\ clicks = 1 =>
                    net.POST + net.DELETE
                        = Cardinality({i \in DOMAIN l.calls : l.calls[i].sent = 1})
            /\ l.returned /\ l.pc # "retryUpdate" /\ l.failedCount > 0 =>
                    subCollection(FailedOperations[l.index + 1].failedUids,
                                  l.uids)

\* The retry of Add dog on x1 and x2 sent two requests; x2 failed, then x1.
C16_Witness ==
    /\ inv["p1"].kind = "retry"
    /\ inv["p1"].pc = "idle"
    /\ clicks = 1
    /\ net.POST = 2
    /\ inv["p1"].uids = <<"x1", "x2">>
    /\ FailedOperations[1].failedUids = <<"x2", "x1">>

C18_RunKeepsRetryCount ==
    [][\A p \in Procs :
        LET l == inv[p]
            old == FailedOperations
            new == FailedOperations'
        IN l.kind = "run" /\ l.pc = "saveFailedWrite" /\ inv'[p].pc # l.pc
                /\ Len(l.executionResult.failedUids) > 0 =>
            IF keyIn(l) \in keysOf(old)
            THEN \E e \in DOMAIN old :
                    /\ keyOf(old[e]) = keyIn(l)
                    /\ Len(new) = Len(old)
                    /\ \A k \in DOMAIN old : k # e => new[k] = old[k]
                    /\ new[e].action = l.action
                    /\ new[e].failedUids = l.executionResult.failedUids
                    /\ new[e].timestamp = l.failedOperation.timestamp
                    /\ new[e].timestamp >= old[e].timestamp
                    /\ new[e].retryCount = old[e].retryCount
            ELSE /\ new[1] = l.failedOperation
                 /\ Tail(new) = IF Len(old) = FailedCap
                                THEN SubSeq(old, 1, FailedCap - 1) ELSE old
    ]_vars

\* C18, amended: the operation of the key is replaced, where it is, by the
\* operation of this run: its failedUids and its timestamp are those of
\* the run, its label is spelled as typed in this run, and its retryCount
\* is 0 again.
C18_RunReplacesGroup ==
    [][\A p \in Procs :
        LET l == inv[p]
            old == FailedOperations
            new == FailedOperations'
        IN l.kind = "run" /\ l.pc = "saveFailedWrite" /\ inv'[p].pc # l.pc
                /\ Len(l.executionResult.failedUids) > 0 =>
            IF keyIn(l) \in keysOf(old)
            THEN \E e \in DOMAIN old :
                    /\ keyOf(old[e]) = keyIn(l)
                    /\ Len(new) = Len(old)
                    /\ \A k \in DOMAIN old : k # e => new[k] = old[k]
                    /\ new[e].action = l.action
                    /\ new[e].labelName = l.labelName
                    /\ new[e].failedUids = l.executionResult.failedUids
                    /\ new[e].timestamp = l.failedOperation.timestamp
                    /\ new[e].timestamp >= old[e].timestamp
                    /\ new[e].retryCount = 0
            ELSE /\ new[1] = l.failedOperation
                 /\ new[1].retryCount = 0
                 /\ Tail(new) = IF Len(old) = FailedCap
                                THEN SubSeq(old, 1, FailedCap - 1) ELSE old
    ]_vars

\* Add dog, retried once before, failed again in a run on x1.
C18_Witness ==
    /\ inv["p1"].kind = "run"
    /\ inv["p1"].pc = "idle"
    /\ clicks = 1
    /\ Len(FailedOperations) = FailedCap
    /\ FailedOperations[1] =
            [action |-> "add", labelName |-> NameDog, failedUids |-> <<"x1">>,
             timestamp |-> now, retryCount |-> 0]
    /\ EarlierOperations(FailedCap)[1].retryCount = 1

\* C19: when every call of a run succeeded, handleAction writes the list
\* without the operation of its action and its label up to case, every
\* other operation as it was and in its place; from then to the end of the
\* run no operation of that key is stored.
C19_RunSuccessClears ==
    [][\A p \in Procs :
        LET l == inv[p]
            old == FailedOperations
            new == FailedOperations'
        IN /\ l.kind = "run" /\ l.pc = "saveFailedWrite" /\ inv'[p].pc # l.pc
                /\ Len(l.executionResult.failedUids) = 0 =>
                /\ keyIn(l) \notin keysOf(new)
                /\ IF keyIn(l) \in keysOf(old)
                   THEN \E e \in DOMAIN old :
                            keyOf(old[e]) = keyIn(l) /\ new = without(old, e)
                   ELSE new = old
           /\ l.kind = "run" /\ l.returned /\ l.failedCount = 0
                /\ l.pc \in {"addRecent", "addRecentAll", "addRecentWrite",
                             "addRecentAllWrite", "idle"} =>
                keyIn(l) \notin keysOf(old)
    ]_vars

\* Remove of cat succeeded on x1: the operation Remove Cat is gone.
C19_Witness ==
    /\ inv["p1"].kind = "run"
    /\ inv["p1"].pc = "idle"
    /\ inv["p1"].action = "remove"
    /\ inv["p1"].labelName = NameLowerCat
    /\ inv["p1"].returned
    /\ inv["p1"].failedCount = 0
    /\ clicks = 1
    /\ Len(FailedOperations) = FailedCap - 1
    /\ FailedOperations = SubSeq(EarlierOperations(FailedCap), 1, FailedCap - 1)

\* C20: an operation of a key leaves the stored list only when a retry of
\* it succeeded on every call, when a run of its key succeeded on every
\* call, or when the list is full and a new operation is put in; no other
\* step of any invocation, overlapping or not, takes it away.
C20_GroupPersists ==
    [][\A k \in keysOf(FailedOperations) \ keysOf(FailedOperations') :
        \/ \E p \in Procs :
                /\ inv[p].kind = "retry"
                /\ inv[p].pc = "retryUpdate"
                /\ inv[p].failedCount = 0
                /\ keyIn(inv[p]) = k
        \/ \E p \in Procs :
                /\ inv[p].kind = "run"
                /\ inv[p].pc = "saveFailedWrite"
                /\ Len(inv[p].executionResult.failedUids) = 0
                /\ keyIn(inv[p]) = k
        \/ \E p \in Procs :
                /\ inv[p].kind = "run"
                /\ inv[p].pc = "saveFailedWrite"
                /\ Len(inv[p].executionResult.failedUids) > 0
                /\ Len(FailedOperations) = FailedCap
                /\ Len(FailedOperations') = FailedCap
    ]_vars

(***************************************************************************)
(* Properties of error handling and of the instance-scoped store.          *)
(***************************************************************************)
\* The errors that end a run before its batch.
WholeBatchErrors == {ErrDataSource, ErrNoPhotos, ErrFetchDetail, ErrNotFound}

\* The run of slot p ends with this step.
runEnds(p) ==
    /\ inv[p].kind = "run"
    /\ inv[p].pc # "idle"
    /\ inv'[p].pc = "idle"

\* The head of `history` is the outcome of the run l: its counts when the
\* batch returned, else its error and no success.
recorded(l, history) ==
    /\ Len(history) >= 1
    /\ LET r == history[1] IN
        /\ r.action = l.action
        /\ r.labelName = l.labelName
        /\ IF l.returned
           THEN /\ r.error = Null
                /\ r.totalCount = Len(l.batchUids)
                /\ r.successCount = Cardinality(callsWith(l, "fulfilled"))
                /\ r.failedCount = Cardinality(callsWith(l, "rejected"))
                /\ r.successCount + r.failedCount = r.totalCount
                /\ r.failedUids = l.failedUids
           ELSE /\ r.error \in WholeBatchErrors
                /\ r.error = l.executionResult.error
                /\ r.successCount = 0
                /\ r.failedUids = <<>>

RecentLabels == getInstanceData("recentLabels", <<>>)
AllLabels == getInstanceData("allLabels", <<>>)

\* C22: a run whose data source gave it no identifier ends on that error
\* before anything is sent: from the answer of the data source to the end
\* of the run no add, delete or detail request goes out, the batch has no
\* call, and the failed operations, the label cache, the recent labels
\* and the list of all labels stay as they are.
C22_NoSelectionTouchesNothing ==
    [][\A p \in Procs :
        /\ inv'[p].kind = "run"
        /\ inv'[p].pc # "getData"
        /\ inv'[p].uids = <<>>
        =>
        /\ inv'[p].executionResult.error \in {ErrNoPhotos, ErrDataSource}
        /\ inv'[p].calls = <<>>
        /\ inv'[p].labelId = -1
        /\ ~inv'[p].returned
        /\ net' = net
        /\ FailedOperations' = FailedOperations
        /\ LabelCache' = LabelCache
        /\ RecentLabels' = RecentLabels
        /\ AllLabels' = AllLabels
    ]_vars

\* Remove of "a" with no photo selected has ended: nothing was sent and
\* the stores but the history are those of the start.
C22_Witness ==
    /\ inv["p1"].kind = "run"
    /\ inv["p1"].pc = "idle"
    /\ inv["p1"].action = "remove"
    /\ inv["p1"].labelName = NameA
    /\ inv["p1"].executionResult.error = ErrNoPhotos
    /\ clicks = 1
    /\ net = [GET |-> 0, POST |-> 0, DELETE |-> 0]
    /\ FailedOperations = EarlierOperations(2)
    /\ LabelCache = (NameCat :> 1)
    /\ RecentLabels = EarlierRecent(RecentCap)
    /\ AllLabels = sort(EarlierRecent(RecentCap))
    /\ Len(History) = 2
    /\ History[1].error = ErrNoPhotos

\* What chrome.storage.local holds for instance `instanceId` under
\* `baseKey`: the value in a sequence of its own, or nothing.
storedFor(st, baseKey, instanceId) ==
    LET key == createInstanceKey(baseKey, instanceId) IN
    IF key \in DOMAIN st THEN <<st[key]>> ELSE <<>>

\* C23: whatever is done while one instance is the active one, the label
\* cache, the label lists, the history and the failed operations stored
\* for every other instance (another scheme and host) stay as they are.
C23_InstancesIsolated ==
    [][\A other \in Origins :
        other # activeTab /\ activeTab' = activeTab =>
            \A baseKey \in BaseKeys :
                storedFor(storage', baseKey, other)
                    = storedFor(storage, baseKey, other)
    ]_vars

\* Where an invocation stands when a getInstanceData of it has returned a
\* value and the function that called it goes on with that value.
AfterRead == {"saveResultWrite", "saveFailedWrite", "addRecentAll",
              "addRecentWrite", "saveErrorWrite", "retrySaveWrite"}

\* C24: while the active tab has no origin no read of the store returns a
\* value, so that no invocation goes on with one, and nothing is written:
\* no key without an instance is in chrome.storage.local.
C24_NoOriginNoData ==
    activeTab = NoTab =>
        /\ \A p \in Procs : inv[p].pc \notin AfterRead
        /\ \A baseKey \in BaseKeys :
                createInstanceKey(baseKey, NoTab) \notin DOMAIN storage

\* C25: clearLabelCache leaves nothing stored of the label cache, the
\* recent labels, all labels, the history and the failed operations of the
\* active instance, and leaves what is stored of them for every other
\* instance as it was.
C25_ClearAllScoped ==
    [][ClearLabelCache =>
        /\ \A baseKey \in BaseKeys :
                storedFor(storage', baseKey, activeTab) = <<>>
        /\ \A other \in Origins \ {activeTab} :
                \A baseKey \in BaseKeys :
                    storedFor(storage', baseKey, other)
                        = storedFor(storage, baseKey, other)
    ]_vars

\* C26: the recent labels are at most RecentCap and no two of them are
\* equal up to case; all labels are in ascending order and no two of them
\* are equal up to case; and when a run whose batch returned has ended,
\* its label, in lower case, is the first of the recent labels and one of
\* all labels.
C26_LabelLists ==
    LET recent == [i \in DOMAIN RecentLabels |-> toLowerCase(RecentLabels[i])]
        all == AllLabels
        allLower == [i \in DOMAIN all |-> toLowerCase(all[i])]
    IN
    /\ Len(recent) <= RecentCap
    /\ \A i, j \in DOMAIN recent : i # j => recent[i] # recent[j]
    /\ \A i \in DOMAIN all : i < Len(all) => strLess(all[i], all[i + 1])
    /\ \A i, j \in DOMAIN all : i # j => allLower[i] # allLower[j]
    /\ \A p \in Procs :
            inv[p].kind = "run" /\ inv[p].returned /\ inv[p].pc = "idle" =>
                /\ RecentLabels # <<>>
                /\ RecentLabels[1] = toLowerCase(inv[p].labelName)
                /\ \E i \in DOMAIN all : all[i] = toLowerCase(inv[p].labelName)

\* With the lists full, a run on "a" and then a run on "Cat" have ended:
\* "cat" is first, "a" second, the oldest label is gone from the recent
\* labels, and "cat" is in each list once.
C26_Witness ==
    /\ clicks = 2
    /\ inv["p1"].kind = "run"
    /\ inv["p1"].returned
    /\ inv["p1"].pc = "idle"
    /\ inv["p1"].labelName = NameCat
    /\ Len(RecentLabels) = RecentCap
    /\ RecentLabels[1] = NameLowerCat
    /\ RecentLabels[2] = NameA
    /\ RecentLabels[3] = NameDog
    /\ Len(AllLabels) = RecentCap + 1
    /\ AllLabels[1] = NameA
    /\ AllLabels[2] = NameLowerCat
    /\ AllLabels[3] = NameDog

\* C27: no two results in the execution history have the same id,
\* whenever and by whatever invocations they were saved.
C27_UniqueIds ==
    \A i, j \in DOMAIN History : i # j => History[i].id # History[j].id

\* C28: a retry writes the list it read at its start, with its own
\* operation removed or updated, whatever has been stored since, and goes
\* on without an error.  With two retries of one operation that both read
\* before either wrote (the witness), what the first wrote is lost.
C28_RetryWritesWhatItRead ==
    [][\A p \in Procs :
        LET l == inv[p]
            read == l.failedOperations
            e == l.index + 1
            failedUids == l.executionResult.failedUids
        IN l.kind = "retry" /\ l.pc = "retryUpdate" /\ inv'[p].pc # l.pc =>
            /\ inv'[p].pc = "retryRefresh"
            /\ inv'[p].executionResult.error = Null
            /\ ui'.statusIsError = ui.statusIsError
            /\ FailedOperations' =
                    IF failedUids = <<>>
                    THEN without(read, e)
                    ELSE [read EXCEPT ![e] =
                            [action |-> read[e].action,
                             labelName |-> read[e].labelName,
                             failedUids |-> failedUids,
                             timestamp |-> now,
                             retryCount |-> read[e].retryCount + 1]]
    ]_vars

\* Two retries of Remove Cat, which had been retried twice, have both
\* failed and written, each after reading the list of the start: the
\* stored operation counts three retries, not four.
C28_Witness ==
    /\ \A p \in Procs :
            /\ inv[p].kind = "retry"
            /\ inv[p].index = 1
            /\ inv[p].pc = "retryRefresh"
            /\ inv[p].executionResult.failedUids = <<"x1">>
            /\ inv[p].executionResult.error = Null
            /\ inv[p].failedOperations[2].retryCount = 3
    /\ EarlierOperations(2)[2].retryCount = 2
    /\ Len(FailedOperations) = 2
    /\ FailedOperations[2].action = "remove"
    /\ FailedOperations[2].labelName = NameCat
    /\ FailedOperations[2].retryCount = 3

(***************************************************************************)
(* Properties of the content script.                                       *)
(***************************************************************************)
\* The step sends a request to the tab.
requestSent == page'.requests = page.requests + 1

\* The step calls sendResponse.
answered == page'.answers = page.answers + 1

DisabledFailure ==
    [success |-> FALSE, uids |-> <<>>, token |-> Null, error |-> ErrDisabled]

\* What the answers of the handler are: only a request the listener took up
\* is answered; the handler goes on to localStorage only if the origin is
\* allowed when it asks, and answers with the disabled failure otherwise;
\* the data are answered only with a token present, and are the stored
\* selection and that token; with no token the answer is the no-auth-token
\* failure, whatever is selected.
answersRight ==
    /\ answered => page.request \in {"received", "enabled"}
    /\ page.request = "received" /\ page'.request # "received" =>
          IF isPluginEnabled
          THEN page'.request = "enabled" /\ ~answered
          ELSE answered /\ page'.answer = DisabledFailure
    /\ answered /\ page'.answer.success =>
          /\ page.request = "enabled"
          /\ page.token # Null
          /\ page'.answer.token = page.token
          /\ page'.answer.uids = page.clipboard.uids
    /\ answered /\ page.request = "enabled" /\ page.token = Null
          /\ page.clipboard.kind # "garbage" =>
          /\ ~page'.answer.success
          /\ page'.answer.error = ErrNoToken

\* C29, as stated: a getPhotoPrismData request is answered with {uids,
\* token} only if the page's origin is on the allow-list at the time of
\* the request and a session token is present; a request to a page whose
\* origin is not allowed is answered with the disabled failure; with the
\* token absent the answer is the no-auth-token failure even when
\* identifiers are selected.
C29_AnswersAsStated ==
    [][/\ answersRight
       /\ requestSent /\ ~isPluginEnabled => page'.request = "received"]_vars

\* C29, amended: a request is taken up, and so answered at all, exactly
\* when the page's origin was on the allow-list when the content script
\* loaded; what is answered then is as stated: the data only if the origin
\* is allowed at the time of the request and a token is present, the
\* disabled failure if the origin is not allowed any more, the
\* no-auth-token failure if the token is absent, whatever is selected.
C29_AnswersWhenListening ==
    [][/\ answersRight
       /\ requestSent => (page'.request = "received" <=> page.listening)
       /\ ~page.loaded /\ page'.loaded => (page'.listening <=> isPluginEnabled)
       /\ page.loaded => page'.listening = page.listening]_vars

\* The handler has answered that no token was found, with a photo selected.
C29_Witness ==
    /\ page.answers > 0
    /\ page.answer.error = ErrNoToken
    /\ page.token = Null
    /\ page.clipboard.uids = <<"x1">>
    /\ page.request = "none"


(***************************************************************************)
(* Termination.                                                            *)
(***************************************************************************)
\* Some call of the batch of l has not run to its end.
unsettled(l) == \E i \in DOMAIN l.calls : l.calls[i].phase # "done"

\* C30: when the data-source request and every issued network call
\* eventually settle, every started handleAction or retry eventually
\* terminates; and no step takes an invocation out of its batch while one
\* of the batch's calls has not settled: nothing times a call out.
C30_Terminates ==
    /\ inv["p1"].pc # "idle" ~> inv["p1"].pc = "idle"
    /\ [][inv["p1"].pc = "batch" /\ unsettled(inv["p1"])
            => inv'["p1"].pc = "batch"]_vars

\* A retry has terminated after its batch of two calls, one of them
\* rejected, has returned.
C30_Witness ==
    /\ inv["p1"].pc = "idle"
    /\ inv["p1"].kind = "retry"
    /\ inv["p1"].returned
    /\ Len(inv["p1"].calls) = 2
    /\ \E i \in DOMAIN inv["p1"].calls : inv["p1"].calls[i].outcome = "rejected"


(***************************************************************************)
(* Properties of the configuration page's clear operations.                *)
(***************************************************************************)
\* The empty default the engine reads a base key with.
emptyDefault(baseKey) == IF baseKey = "labelCache" THEN EmptyObject ELSE <<>>

\* The base keys a clear operation is about.
clearedBaseKeys(operation) == {baseKey \in BaseKeys : <<baseKey>> \in clearedKeys(operation)}

\* What getInstanceData(baseKey, emptyDefault(baseKey)) returns from st.
readFrom(st, baseKey) ==
    LET stored == storedFor(st, baseKey, activeTab) IN
    IF stored = <<>> THEN emptyDefault(baseKey) ELSE stored[1]

\* C31: after each clear operation of the configuration page, the data the
\* engine stored under the operation's base keys are gone: the engine reads
\* the empty default.
C31_ClearedDataGone ==
    [][\A operation \in ClearOperations :
            configPage'.clicks = configPage.clicks + 1
            /\ configPage'.status = clearedStatus(operation) =>
                \A baseKey \in clearedBaseKeys(operation) :
                    readFrom(storage', baseKey) = emptyDefault(baseKey)]_vars


(***************************************************************************)
(* Properties of the stored failed operations and of the display's         *)
(* processing state.                                                       *)
(***************************************************************************)
\* C32: every stored failed operation has at least one failed UID.
C32_GroupsNonEmpty ==
    LET failedOperations == getInstanceData("failedOperations", <<>>) IN
    \A i \in DOMAIN failedOperations : Len(failedOperations[i].failedUids) > 0

\* A retry whose batch left no failure has ended, and the operation it
\* retried is not stored any more.
C32_Witness ==
    \E p \in Procs :
        /\ inv[p].pc = "idle"
        /\ inv[p].kind = "retry"
        /\ inv[p].returned
        /\ inv[p].result.failedCount = 0
        /\ Len(getInstanceData("failedOperations", <<>>)) = 1


\* The invocations of handleAction and retryFailedOperation between their
\* start and their end.
inFlight == {p \in Procs : inv[p].pc # "idle"}

\* C33: at most one invocation of handleAction or retryFailedOperation is
\* between its start and its end at any time.
C33_OneInFlight == Cardinality(inFlight) <= 1


\* C34: whenever an invocation of handleAction or retryFailedOperation
\* ends, on any path, the display is out of its processing state: the label
\* input and the Add and Remove buttons are enabled and the progress is
\* hidden.
C34_EndsNotProcessing ==
    [][\A p \in Procs :
        inv[p].pc # "idle" /\ inv'[p].pc = "idle" =>
            ~ui'.disabled /\ ~ui'.progressShown]_vars


(***************************************************************************)
(* Properties of the records of the execution history.                     *)
(***************************************************************************)
consistent(record) ==
    /\ Len(record.failedUids) = record.failedCount
    /\ record.error = Null =>
            record.successCount + record.failedCount = record.totalCount
    /\ record.error # Null =>
            record.successCount = 0 /\ record.failedCount = 0

\* C35: in every record of the execution history the failed UIDs are as
\* many as failedCount says; a record without error accounts for every
\* photo as a success or a failure; a record with an error counts no
\* success and no failure.
C35_RecordsConsistent ==
    LET executionHistory == getInstanceData("executionHistory", <<>>) IN
    \A i \in DOMAIN executionHistory : consistent(executionHistory[i])


(***************************************************************************)
(* Properties of an invocation during which the active tab changes.        *)
(***************************************************************************)
\* The keys of chrome.storage.local under which the step writes or which it
\* removes.
written == {key \in DOMAIN storage \cup DOMAIN storage' :
                \/ key \notin DOMAIN storage
                \/ key \notin DOMAIN storage'
                \/ storage'[key] # storage[key]}

\* C36: the invocations of SpecNavigate obtain their identifiers and token
\* from the page of https://a.b.  Every request they send (each goes to the
\* origin of the tab that is active when it is sent) goes to https://a.b,
\* and every key they write is a key of https://a.b, also when the active
\* tab has changed since.
C36_SingleInstance ==
    [][/\ net' # net => activeTab = OriginA
       /\ written \subseteq {createInstanceKey(baseKey, OriginA) :
                                baseKey \in BaseKeys}]_vars


(***************************************************************************)
(* Properties of a retry that aborts, and of a click without label.        *)
(***************************************************************************)
\* The retry l has aborted as a whole: an error took it to its finally
\* block before a batch returned.
aborted(l) ==
    /\ l.kind = "retry"
    /\ l.pc \in {"retrySave", "retrySaveWrite", "idle"}
    /\ l.executionResult.error # Null
    /\ ~l.returned

\* C37: a retry that aborts as a whole has sent no POST and no DELETE, and
\* the failed operations are stored as the retry read them at its start:
\* the retried one and every other, each at its place.
C37_AbortedRetryLeavesGroups ==
    \A p \in Procs :
        aborted(inv[p]) =>
            /\ \A i \in DOMAIN inv[p].calls : inv[p].calls[i].sent = 0
            /\ clicks = 1 => net.POST = 0 /\ net.DELETE = 0
            /\ getInstanceData("failedOperations", <<>>) = inv[p].failedOperations

\* A retry of Remove Cat has ended on a failure to resolve the label.
C37_Witness ==
    /\ aborted(inv["p1"])
    /\ inv["p1"].pc = "idle"
    /\ inv["p1"].action = "remove"
    /\ inv["p1"].executionResult.error \in {ErrFetchDetail, ErrNotFound}
    /\ net.GET = 1


\* C38: a click on Add or Remove with the label input empty or holding
\* white space only starts no invocation (no data is requested), sends no
\* request, writes no store, and leaves the controls and the progress
\* display as they are.
C38_NoLabelNoEffect ==
    [][\A action \in Actions, input \in {<<>>, NameBlank} :
            HandleAction("p1", action, input) =>
                /\ inv' = inv
                /\ net' = net
                /\ storage' = storage
                /\ ui'.disabled = ui.disabled
                /\ ui'.progressShown = ui.progressShown
                /\ ui'.progressText = ui.progressText]_vars

\* The click with a blank label input has been handled.
C38_Witness ==
    /\ clicks = 1
    /\ ui.status = "Please enter a label name."
    /\ ui.statusIsError
    /\ inv["p1"].pc = "idle"
    /\ inv["p1"].kind = "none"

====
